---- MODULE Spec2Model ----
(***************************************************************************)
(* A model of the Bedwars tracking scripts:                                *)
(*   leaderboard_tracker.py  MassiveBedwarsTracker (discovery, the store)  *)
(*   uuid_ingestor.py        UUIDIngestor (name resolution, line cursor)   *)
(*   bedwars_stats.py        BedwarsStatsTracker (sessions, recent games)  *)
(* Each component has its own specification; the components that share    *)
(* the SQLite store share the store's variables.                           *)
(***************************************************************************)
EXTENDS Integers, Sequences, FiniteSets, TLC

\* ------------------------------------------------------------------------
\* Bounds of the model
\* ------------------------------------------------------------------------
\* identities (players known to the APIs)
MaxIds == 2
\* rows of player_discovery
MaxQueue == 3
\* leaders listed by one leaderboard response
MaxLeaders == 1
\* members listed by one guild response
MaxMembers == 1
\* clock ticks that make up the hour of seed_from_leaderboards
HourTicks == 2
\* leaderboard requests of one tick that are counted
MaxSeen == 2

\* ------------------------------------------------------------------------
\* Program constants of leaderboard_tracker.py
\* ------------------------------------------------------------------------
PLAYERS_PER_CYCLE == 200
INITIAL_RATE_LIMIT == 120
RATE_LIMIT_FLOOR == 5
GUILD_RATE_FLOOR == 20
SEED_PLAYER_THRESHOLD == 1000
FIND_QUEUE_THRESHOLD == 100

VARIABLES
    \* the store (bedwars_database.db), committed state
    players,            \* players table: uuid text -> row
    otherPlayers,       \* number of players rows of identities outside the model
    bedwars_stats,      \* stat snapshot rows, in insertion order
    player_discovery,   \* discovery queue rows, in insertion (discovered_at) order
    tx_marked,          \* ids whose processed flag is set in the tracker's open transaction
    \* MassiveBedwarsTracker
    t_mode,             \* "auto" (run_automatic) or "interactive" (run_interactive)
    t_pc,               \* position of the tracker process
    rate_limit_remaining,
    since_lb_fetch,     \* ticks since last_leaderboard_fetch, saturating at HourTicks
    t_batch,            \* queue_items of the running process_discovery_queue call
    t_idx,              \* index into t_batch of the next item
    t_calls,            \* number of process_discovery_queue calls started (capped)
    stat_fetches,       \* per queue row id: player-stat requests issued for it
    \* UUIDIngestor and its files
    scraped_names,      \* scraped_names_to_process.txt, one name per line
    progress,           \* ingestor_progress.txt: the persisted line cursor
    name_changes_file,  \* name_changes.json: old name -> list of new names
    i_pc,               \* position of the ingestor process
    i_last,             \* last_processed_line, read when the run starts
    i_line,             \* current_line_number
    i_retries,          \* retries of the running get_player_uuid_and_name call
    i_reqs,             \* requests sent by the running get_player_uuid_and_name call
    uuid_cache,         \* name -> uuid text
    i_name_changes,     \* the ingestor's in-memory name_changes
    i_deferred,         \* lines the run reported "Will retry later" (status ERROR)
    i_runs,             \* runs of process_scraped_names completed (capped)
    i_hist,             \* per line: the status that settled it, and whether
                        \* get_player_uuid_and_name was called for it after that
    \* BedwarsStatsTracker and its files (one tracked player, as in main())
    baseline,           \* bedwars_baseline/<name>.json: <<>> or <<stats>>
    session_log,        \* bedwars_sessions/<name>.json: [sessions, winstreak]
    cooldown_file,      \* player_cooldowns.json
    s_cooldowns,        \* self.player_cooldowns: name -> last_check
    s_name_changes,     \* self.name_changes
    s_now,              \* the clock of the session tracker
    s_last,             \* what the last process_player_session call did
    \* recent games
    recent_games,       \* recent_games/<name>.json: the "recent_games" list
    r_api_enabled,      \* its "api_enabled" flag
    r_dropped,          \* all_games[50:] of the last call, the entries it cut off
    r_polls,            \* process_recent_games calls that wrote the file (capped)
    \* update_winstreak_estimates applied to a sequence of session diffs
    w_est,              \* winstreak_data after the last update
    w_prev,             \* winstreak_data before the last update
    w_diff,             \* the diff of the last update
    w_api,              \* the API-reported winstreak per scope at the last update
    w_n,                \* number of updates applied
    \* generate_leaderboards
    leaderboards,       \* leaderboards/<key>_leaderboard.json: <<>> or <<artifact>>
    lb_fresh,           \* the files were written from the store as it is now
    lb_now,             \* the clock of the leaderboard specification
    \* bedwars_level of one player
    lv_xp,              \* experience of the player's latest snapshot
    lv_level,           \* players.bedwars_level
    lv_by,              \* who wrote it last: "tracker" or "script"
    \* one win/loss ratio
    rt_wins,            \* the wins the ratio was computed from
    rt_losses,          \* the losses the ratio was computed from
    rt_ratio,           \* the ratio, a fraction in lowest terms
    rt_by,              \* where it was computed: "stats", "diff" or "column"
    \* the tracking loop of run()
    loop_last,          \* the requests of the last iteration, and the iterations skipped
    \* the leaderboard requests of the tracker
    seed_requests,      \* per tick of the last hour (0 = the current one): requests sent
    \* main() of bedwars_stats.py
    main,               \* the run() call main is in, the interrupts so far, polls of the run
    \* make_api_request of either tracker
    api_call,           \* the running call: its frames, its last response, its result
    \* add_uuid_to_discovery_queue of the ingestor
    i_insert,           \* the last call: what the store answered, the attempts, the result
    \* the tracker and the ingestor enqueueing side by side
    enq                 \* per process: where its enqueue call is, and the uuid it holds

storeVars == <<players, otherPlayers, bedwars_stats, player_discovery, tx_marked>>
trackerVars == <<t_mode, t_pc, rate_limit_remaining, since_lb_fetch, t_batch, t_idx,
                 t_calls, stat_fetches>>
ingestVars == <<scraped_names, progress, name_changes_file, i_pc, i_last, i_line,
                i_retries, i_reqs, uuid_cache, i_name_changes, i_deferred, i_runs,
                i_hist>>
sessionVars == <<baseline, session_log, cooldown_file, s_cooldowns, s_name_changes,
                 s_now, s_last>>
recentVars == <<recent_games, r_api_enabled, r_dropped, r_polls>>
wsVars == <<w_est, w_prev, w_diff, w_api, w_n>>
lbVars == <<leaderboards, lb_fresh, lb_now>>
lvVars == <<lv_xp, lv_level, lv_by>>
rtVars == <<rt_wins, rt_losses, rt_ratio, rt_by>>
vars == <<storeVars, trackerVars, ingestVars, sessionVars, recentVars, wsVars, lbVars,
          lvVars, rtVars, loop_last, seed_requests, main, api_call, i_insert, enq>>

\* what the actions of one component leave alone
outsideDiscovery == <<ingestVars, sessionVars, recentVars, wsVars, lbVars, lvVars, rtVars,
    loop_last, seed_requests, main, api_call, i_insert, enq>>
outsideSeeding == <<ingestVars, sessionVars, recentVars, wsVars, lbVars, lvVars, rtVars,
    loop_last, main, api_call, i_insert, enq>>
outsideIngest == <<sessionVars, recentVars, wsVars, lbVars, lvVars, rtVars,
    loop_last, seed_requests, main, api_call, i_insert, enq>>
outsideSession == <<storeVars, trackerVars, scraped_names, progress, i_pc, i_last,
                    i_line, i_retries, i_reqs, uuid_cache, i_name_changes, i_deferred,
                    i_runs, i_hist, recentVars, wsVars, lbVars, lvVars, rtVars,
    loop_last, seed_requests, main, api_call, i_insert, enq>>
outsideRecent == <<storeVars, trackerVars, ingestVars, sessionVars, wsVars, lbVars, lvVars, rtVars,
    loop_last, seed_requests, main, api_call, i_insert, enq>>
outsideWinstreak == <<storeVars, trackerVars, ingestVars, sessionVars, recentVars, lbVars,
                      lvVars, rtVars,
    loop_last, seed_requests, main, api_call, i_insert, enq>>
outsideLeaderboards == <<otherPlayers, player_discovery, tx_marked, trackerVars, ingestVars,
                         sessionVars, recentVars, wsVars, lvVars, rtVars,
    loop_last, seed_requests, main, api_call, i_insert, enq>>
outsideLevels == <<storeVars, trackerVars, ingestVars, sessionVars, recentVars, wsVars,
                   lbVars, rtVars,
    loop_last, seed_requests, main, api_call, i_insert, enq>>
outsideRatios == <<storeVars, trackerVars, ingestVars, sessionVars, recentVars, wsVars,
                   lbVars, lvVars, loop_last, seed_requests, main, api_call, i_insert, enq>>
outsideLoop == <<storeVars, trackerVars, scraped_names, progress, i_pc, i_last, i_line,
                 i_retries, i_reqs, uuid_cache, i_name_changes, i_deferred, i_runs,
                 i_hist, wsVars, lbVars, lvVars, rtVars, seed_requests, main, api_call, i_insert, enq>>
outsideMain == <<storeVars, trackerVars, scraped_names, progress, i_pc, i_last, i_line,
                 i_retries, i_reqs, uuid_cache, i_name_changes, i_deferred, i_runs,
                 i_hist, wsVars, lbVars, lvVars, rtVars, seed_requests, api_call, i_insert, enq>>

outsideRequests == <<storeVars, t_mode, t_pc, since_lb_fetch, t_batch, t_idx, t_calls,
                     stat_fetches, ingestVars, sessionVars, recentVars, wsVars, lbVars,
                     lvVars, rtVars, loop_last, seed_requests, main, i_insert, enq>>
\* what add_uuid_to_discovery_queue leaves alone outside the ingestor
outsideEnqueue == <<sessionVars, recentVars, wsVars, lbVars, lvVars, rtVars,
                    loop_last, seed_requests, main, api_call, enq>>

\* what the enqueue calls of the two processes leave alone
outsideRace == <<trackerVars, ingestVars, sessionVars, recentVars, wsVars, lbVars, lvVars,
                 rtVars, loop_last, seed_requests, main, api_call, i_insert>>

\* what a _log_name_change call of the ingestor leaves alone
outsideNameLog == <<storeVars, trackerVars, scraped_names, progress, i_pc, i_last,
                    i_line, i_retries, i_reqs, uuid_cache, i_deferred, i_runs, i_hist,
                    sessionVars, recentVars, wsVars, lbVars, lvVars, rtVars, loop_last,
                    seed_requests, main, api_call, i_insert, enq>>

\* ------------------------------------------------------------------------
\* Helpers
\* ------------------------------------------------------------------------
Range(s) == {s[i] : i \in 1..Len(s)}

SeqsUpTo(S, n) == UNION {[1..k -> S] : k \in 0..n}

Min(a, b) == IF a <= b THEN a ELSE b

\* ------------------------------------------------------------------------
\* UUID text.  A UUID string is an identity in one of two textual forms.
\* ------------------------------------------------------------------------
Identities == 1..MaxIds
Forms == {"dashed", "plain"}
UuidText == [id : Identities, form : Forms]

\* clean_uuid = uuid.replace('-', ''); formatted = 8-4-4-4-12
FormatUuid(u) == [id |-> u.id, form |-> "dashed"]

\* displayname the stats API reports for an identity
DisplayName(k) == IF k = 1 THEN "a" ELSE IF k = 2 THEN "b" ELSE "c"

\* ------------------------------------------------------------------------
\* The store as the tracker's connection sees it
\* ------------------------------------------------------------------------
\* processed flag of row i, own uncommitted UPDATE included
TrackerSeesProcessed(i) == player_discovery[i].processed \/ i \in tx_marked

\* conn.commit(): the open transaction's UPDATEs become the committed state
Committed(Q, tx) ==
    [i \in 1..Len(Q) |-> IF i \in tx THEN [Q[i] EXCEPT !.processed = TRUE] ELSE Q[i]]

\* SELECT COUNT(*) FROM players WHERE is_active = TRUE
TotalPlayers == otherPlayers + Cardinality(DOMAIN players)

\* SELECT COUNT(*) FROM player_discovery WHERE processed = FALSE
QueueCount == Cardinality({i \in 1..Len(player_discovery) : ~TrackerSeesProcessed(i)})

\* the checks made on the uuid string as given only
AddPlayerToDiscoveryAsGiven(P, Q, raw, method) ==
    IF raw \in DOMAIN P \/ \E i \in 1..Len(Q) : Q[i].uuid = raw
    THEN Q
    ELSE Append(Q, [uuid |-> FormatUuid(raw), method |-> method, processed |-> FALSE])

\* add_player_to_discovery: the row appended to Q (a committed queue with no
\* open transaction) for the uuid string raw, or Q unchanged.
\*   players:  uuid = raw OR uuid = formatted
\*   queue:    discovered_uuid = raw OR discovered_uuid = formatted AND processed = FALSE
\*             (AND binds tighter than OR)
AddPlayerToDiscovery(P, Q, raw, method) ==
    LET formatted == FormatUuid(raw)
        inPlayers == raw \in DOMAIN P \/ formatted \in DOMAIN P
        inQueue == \E i \in 1..Len(Q) :
                      \/ Q[i].uuid = raw
                      \/ (Q[i].uuid = formatted /\ ~Q[i].processed)
    IN  IF inPlayers \/ inQueue
        THEN Q
        ELSE Append(Q, [uuid |-> formatted, method |-> method, processed |-> FALSE])

\* the loop "for uuid in leaders" / "for member in members" over add_player_to_discovery
RECURSIVE AddAllToDiscovery(_, _, _, _)
AddAllToDiscovery(P, Q, raws, method) ==
    IF raws = <<>>
    THEN Q
    ELSE AddAllToDiscovery(P, AddPlayerToDiscovery(P, Q, Head(raws), method),
                           Tail(raws), method)

\* the players table left as it was
KeepPlayers(P, uuid, method) == P

\* save_player_stats: INSERT OR REPLACE INTO players, INSERT INTO bedwars_stats
SavePlayerRow(P, uuid, method) ==
    [u \in DOMAIN P \cup {uuid} |->
        IF u = uuid
        THEN [username |-> DisplayName(uuid.id), discovery_method |-> method]
        ELSE P[u]]

SaveStatsRow(S, uuid) == Append(S, [uuid |-> uuid])

\* SELECT id ... WHERE processed = FALSE ORDER BY discovered_at LIMIT ?
RECURSIVE UnprocessedIds(_, _)
UnprocessedIds(Q, from) ==
    IF from > Len(Q)
    THEN <<>>
    ELSE IF Q[from].processed
         THEN UnprocessedIds(Q, from + 1)
         ELSE <<from>> \o UnprocessedIds(Q, from + 1)

SelectAnyRows(Q, limit) ==
    SubSeq([i \in 1..Len(Q) |-> i], 1, Min(limit, Len(Q)))

SelectUnprocessed(Q, limit) ==
    LET ids == UnprocessedIds(Q, 1)
    IN  SubSeq(ids, 1, Min(limit, Len(ids)))

\* ------------------------------------------------------------------------
\* The stats API as the tracker sees it
\* ------------------------------------------------------------------------
NoHeader == -1
\* RateLimit-Remaining values on either side of the two thresholds
HeaderValues == {RATE_LIMIT_FLOOR, RATE_LIMIT_FLOOR + 1, GUILD_RATE_FLOOR, GUILD_RATE_FLOOR + 1}
Headers == HeaderValues \cup {NoHeader}

\* make_api_request: rate_limit_remaining after a response carrying header h
AfterHeader(rl, h) == IF h = NoHeader THEN rl ELSE h

\* ------------------------------------------------------------------------
\* Initial state
\* ------------------------------------------------------------------------
InitStore ==
    /\ players = <<>>
    /\ otherPlayers \in {0, SEED_PLAYER_THRESHOLD}
    /\ bedwars_stats = <<>>
    /\ player_discovery = <<>>
    /\ tx_marked = {}

InitTracker ==
    /\ t_mode \in {"auto", "interactive"}
    /\ t_pc = "boot"
    /\ rate_limit_remaining = INITIAL_RATE_LIMIT
    /\ since_lb_fetch = HourTicks
    /\ seed_requests = [k \in 0..(HourTicks - 1) |-> 0]
    /\ t_batch = <<>>
    /\ t_idx = 1
    /\ t_calls = 0
    /\ stat_fetches = [i \in 1..MaxQueue |-> 0]


\* ------------------------------------------------------------------------
\* MassiveBedwarsTracker: seeding
\* ------------------------------------------------------------------------
\* "if time.time() - self.last_leaderboard_fetch < 3600"
FetchedRecently(since) == since < HourTicks

\* seed_from_leaderboards: skipped within the hour; otherwise one request.
\* A failed request (exception, non-200, success missing) leaves
\* last_leaderboard_fetch alone; a successful one enqueues the leaders.
SeedFromLeaderboards ==
    IF FetchedRecently(since_lb_fetch)
    THEN UNCHANGED <<player_discovery, rate_limit_remaining, since_lb_fetch, seed_requests>>
    ELSE \E h \in Headers :
            /\ seed_requests' = [seed_requests EXCEPT ![0] = Min(@ + 1, MaxSeen)]
            /\ rate_limit_remaining' = AfterHeader(rate_limit_remaining, h)
            /\ \/ UNCHANGED <<player_discovery, since_lb_fetch>>
               \/ /\ h # NoHeader
                  /\ \E leaders \in SeqsUpTo(UuidText, MaxLeaders) :
                        /\ Len(player_discovery) + Len(leaders) <= MaxQueue
                        /\ player_discovery' =
                              AddAllToDiscovery(players, player_discovery, leaders,
                                                "leaderboard")
                  /\ since_lb_fetch' = 0

\* run_automatic: the initial seeding before the loop
InitialSeed ==
    /\ UNCHANGED outsideSeeding
    /\ t_pc = "boot"
    /\ t_mode = "auto"
    /\ SeedFromLeaderboards
    /\ t_pc' = "ready"
    /\ UNCHANGED <<players, otherPlayers, bedwars_stats, tx_marked, t_mode, t_batch,
                   t_idx, t_calls, stat_fetches>>

\* run_interactive: the menu is shown, nothing is fetched before a choice
ShowMenu ==
    /\ UNCHANGED outsideDiscovery
    /\ t_pc = "boot"
    /\ t_mode = "interactive"
    /\ t_pc' = "ready"
    /\ UNCHANGED <<storeVars, t_mode, rate_limit_remaining, since_lb_fetch, t_batch,
                   t_idx, t_calls, stat_fetches>>

\* run_discovery_cycle, up to the call of process_discovery_queue
CycleSeed ==
    /\ UNCHANGED outsideSeeding
    /\ t_pc = "ready"
    /\ t_mode = "auto"
    /\ IF TotalPlayers < SEED_PLAYER_THRESHOLD
       THEN SeedFromLeaderboards
       ELSE UNCHANGED <<player_discovery, rate_limit_remaining, since_lb_fetch,
                        seed_requests>>
    /\ t_pc' = "select"
    /\ UNCHANGED <<players, otherPlayers, bedwars_stats, tx_marked, t_mode, t_batch,
                   t_idx, t_calls, stat_fetches>>

\* find_new_players (menu choice 1), up to the call of process_discovery_queue
FindNewPlayersSeed ==
    /\ UNCHANGED outsideSeeding
    /\ t_pc = "ready"
    /\ t_mode = "interactive"
    /\ IF TotalPlayers < SEED_PLAYER_THRESHOLD \/ QueueCount < FIND_QUEUE_THRESHOLD
       THEN SeedFromLeaderboards
       ELSE UNCHANGED <<player_discovery, rate_limit_remaining, since_lb_fetch,
                        seed_requests>>
    /\ t_pc' = "select"
    /\ UNCHANGED <<players, otherPlayers, bedwars_stats, tx_marked, t_mode, t_batch,
                   t_idx, t_calls, stat_fetches>>

\* ------------------------------------------------------------------------
\* MassiveBedwarsTracker.process_discovery_queue
\* ------------------------------------------------------------------------
MaxCalls == 2

\* the SELECT and fetchall() before the loop (limit = PLAYERS_PER_CYCLE)
SelectBatch ==
    /\ UNCHANGED outsideDiscovery
    /\ t_pc = "select"
    /\ t_batch' = SelectUnprocessed(player_discovery, PLAYERS_PER_CYCLE)
    /\ t_idx' = 1
    /\ t_calls' = Min(t_calls + 1, MaxCalls)
    /\ t_pc' = "loop"
    /\ UNCHANGED <<storeVars, t_mode, rate_limit_remaining, since_lb_fetch, stat_fetches>>

\* the loop is exhausted: process_discovery_queue returns, the cycle ends
\* (time.sleep(CYCLE_SLEEP_SECONDS) in run_automatic, the menu in run_interactive)
BatchDone ==
    /\ UNCHANGED outsideDiscovery
    /\ t_pc = "loop"
    /\ t_idx > Len(t_batch)
    /\ t_pc' = "ready"
    /\ UNCHANGED <<storeVars, t_mode, rate_limit_remaining, since_lb_fetch, t_batch,
                   t_idx, t_calls, stat_fetches>>

\* the test with < in place of <=
RateLimitBelowFloor(rl) == rl < RATE_LIMIT_FLOOR

\* "if self.rate_limit_remaining <= 5"
RateLimitTooLow(rl) == rl <= RATE_LIMIT_FLOOR

\* "if self.rate_limit_remaining <= 5: ... break"
RateLimitBreak ==
    /\ UNCHANGED outsideDiscovery
    /\ t_pc = "loop"
    /\ t_idx <= Len(t_batch)
    /\ RateLimitTooLow(rate_limit_remaining)
    /\ t_pc' = "ready"
    /\ UNCHANGED <<storeVars, t_mode, rate_limit_remaining, since_lb_fetch, t_batch,
                   t_idx, t_calls, stat_fetches>>

\* "UPDATE player_discovery SET processed = TRUE WHERE id = ?": the UPDATE opens
\* a transaction on the tracker's connection; nothing is committed yet
MarkProcessed ==
    /\ UNCHANGED outsideDiscovery
    /\ t_pc = "loop"
    /\ t_idx <= Len(t_batch)
    /\ ~RateLimitTooLow(rate_limit_remaining)
    /\ tx_marked' = tx_marked \cup {t_batch[t_idx]}
    /\ t_pc' = "fetch"
    /\ UNCHANGED <<players, otherPlayers, bedwars_stats, player_discovery, t_mode,
                   rate_limit_remaining, since_lb_fetch, t_batch, t_idx, t_calls,
                   stat_fetches>>

\* fetch_player_stats returned None (request exception, non-200, no "player"):
\* nothing is saved, the iteration's conn.commit() commits the UPDATE
FetchNoStats ==
    /\ UNCHANGED outsideDiscovery
    /\ t_pc = "fetch"
    /\ \E h \in Headers :
          rate_limit_remaining' = AfterHeader(rate_limit_remaining, h)
    /\ stat_fetches' = [stat_fetches EXCEPT ![t_batch[t_idx]] = @ + 1]
    /\ player_discovery' = Committed(player_discovery, tx_marked)
    /\ tx_marked' = {}
    /\ t_idx' = t_idx + 1
    /\ t_pc' = "loop"
    /\ UNCHANGED <<players, otherPlayers, bedwars_stats, t_mode, since_lb_fetch,
                   t_batch, t_calls>>

\* fetch_player_stats returned stats: save_player_stats (which commits), then
\* discover_players_from_guild if rate_limit_remaining > 20, then conn.commit()
FetchStats ==
    /\ UNCHANGED outsideDiscovery
    /\ t_pc = "fetch"
    /\ LET id == t_batch[t_idx]
           uuid == player_discovery[id].uuid
           method == player_discovery[id].method
           P1 == SavePlayerRow(players, uuid, method)
           Q1 == Committed(player_discovery, tx_marked)
       IN  /\ stat_fetches' = [stat_fetches EXCEPT ![id] = @ + 1]
           /\ players' = P1
           /\ bedwars_stats' = SaveStatsRow(bedwars_stats, uuid)
           /\ tx_marked' = {}
           /\ \E h \in Headers :
                 IF AfterHeader(rate_limit_remaining, h) > GUILD_RATE_FLOOR
                 THEN \E h2 \in Headers :
                         /\ rate_limit_remaining' =
                               AfterHeader(AfterHeader(rate_limit_remaining, h), h2)
                         /\ \/ player_discovery' = Q1
                            \/ /\ h2 # NoHeader
                               /\ \E members \in SeqsUpTo(UuidText, MaxMembers) :
                                     /\ Len(Q1) + Len(members) <= MaxQueue
                                     /\ player_discovery' =
                                           AddAllToDiscovery(P1, Q1, members, "guild")
                 ELSE /\ rate_limit_remaining' = AfterHeader(rate_limit_remaining, h)
                      /\ player_discovery' = Q1
    /\ t_idx' = t_idx + 1
    /\ t_pc' = "loop"
    /\ UNCHANGED <<otherPlayers, t_mode, since_lb_fetch, t_batch, t_calls>>

\* ------------------------------------------------------------------------
\* Environment of the tracker
\* ------------------------------------------------------------------------
\* time passes
Tick ==
    /\ UNCHANGED outsideSeeding
    /\ since_lb_fetch < HourTicks \/ \E k \in DOMAIN seed_requests : seed_requests[k] > 0
    /\ since_lb_fetch' = Min(since_lb_fetch + 1, HourTicks)
    /\ seed_requests' = [k \in 0..(HourTicks - 1) |->
                            IF k = 0 THEN 0 ELSE seed_requests[k - 1]]
    /\ UNCHANGED <<storeVars, t_mode, t_pc, rate_limit_remaining, t_batch, t_idx,
                   t_calls, stat_fetches>>

\* ------------------------------------------------------------------------
\* UUIDIngestor
\* ------------------------------------------------------------------------
\* lines of the scraped names file
MaxLines == 2
\* requests one get_player_uuid_and_name call may send in the model
MaxReqs == 4
\* runs of process_scraped_names that are counted
MaxRuns == 2

\* "while retries < 3"
MAX_RETRIES == 3

Names == {DisplayName(k) : k \in Identities}
EmptyLine == ""
\* the name a renamed player now carries
RenamedTo == "z"

\* the identity the Mojang API resolves a name to
NameId(n) == CHOOSE k \in Identities : DisplayName(k) = n

\* _load_uuid_cache: {row[0]: row[1]} over SELECT username, uuid FROM players
RECURSIVE CacheOfRows(_, _)
CacheOfRows(P, us) ==
    IF us = {}
    THEN <<>>
    ELSE LET u == CHOOSE x \in us : TRUE
             rest == CacheOfRows(P, us \ {u})
         IN  [n \in DOMAIN rest \cup {P[u].username} |->
                 IF n = P[u].username THEN u ELSE rest[n]]

LoadUuidCache(P) == CacheOfRows(P, DOMAIN P)

\* dict assignment d[k] = v and del d[k]
DictPut(d, k, v) == [x \in DOMAIN d \cup {k} |-> IF x = k THEN v ELSE d[x]]
DictDel(d, k) == [x \in DOMAIN d \ {k} |-> d[x]]

\* _log_name_change: append a record to the old name's list (no check)
LogNameChange(nc, old, new) ==
    DictPut(nc, old, (IF old \in DOMAIN nc THEN nc[old] ELSE <<>>) \o <<new>>)

\* add_uuid_to_discovery_queue: the queue after the call.  The checks compare
\* the uuid string as given; locked says that no INSERT attempt went through
\* (another connection holds the write lock throughout, or the store fails).
AddUuidToDiscoveryQueue(P, Q, uuid, method, locked) ==
    LET inDb == uuid \in DOMAIN P
        inQueue == \E i \in 1..Len(Q) : Q[i].uuid = uuid /\ ~Q[i].processed
    IN  IF inDb \/ inQueue \/ locked
        THEN Q
        ELSE Append(Q, [uuid |-> uuid, method |-> method, processed |-> FALSE])

\* the cursor file ignored: every run starts from the first line
StartFromFirstLine(file) == 0

\* _get_last_processed_line: int(content) of the progress file (0 without one)
GetLastProcessedLine(file) == file

\* get_player_uuid_and_name is called for a line
Called(h, line) == [h EXCEPT ![line].again = @ \/ h[line].status # "none"]

\* the call returned SUCCESS or PLAYER_NOT_FOUND for a line
Settled(h, line, status) == [h EXCEPT ![line].status = status]

InitIngest ==
    /\ scraped_names \in [1..MaxLines -> Names \cup {EmptyLine}]
    /\ progress = 0
    /\ name_changes_file = <<>>
    /\ i_pc = "off"
    /\ i_last = 0
    /\ i_line = 0
    /\ i_retries = 0
    /\ i_reqs = 0
    /\ uuid_cache = <<>>
    /\ i_name_changes = <<>>
    /\ i_deferred = {}
    /\ i_runs = 0
    /\ i_hist = [l \in 1..MaxLines |-> [status |-> "none", again |-> FALSE]]

\* UUIDIngestor() and the start of process_scraped_names:
\* the cache and the name-change log are loaded, the cursor is read
IngestorStart ==
    /\ UNCHANGED outsideIngest
    /\ i_pc = "off"
    /\ uuid_cache' = LoadUuidCache(players)
    /\ i_name_changes' = name_changes_file
    /\ i_last' = GetLastProcessedLine(progress)
    /\ i_line' = 1
    /\ i_retries' = 0
    /\ i_reqs' = 0
    /\ i_deferred' = {}
    /\ i_pc' = "line"
    /\ UNCHANGED <<storeVars, trackerVars, scraped_names, progress, name_changes_file,
                   i_runs, i_hist>>

\* the file is exhausted: the run is over
IngestorFinish ==
    /\ UNCHANGED outsideIngest
    /\ i_pc = "line"
    /\ i_line > Len(scraped_names)
    /\ i_pc' = "off"
    /\ i_runs' = Min(i_runs + 1, MaxRuns)
    /\ UNCHANGED <<storeVars, trackerVars, scraped_names, progress, name_changes_file,
                   i_last, i_line, i_retries, i_reqs, uuid_cache, i_name_changes,
                   i_deferred, i_hist>>

\* "if current_line_number <= last_processed_line: continue"
SkipProcessedLine ==
    /\ UNCHANGED outsideIngest
    /\ i_pc = "line"
    /\ i_line <= Len(scraped_names)
    /\ i_line <= i_last
    /\ i_line' = i_line + 1
    /\ UNCHANGED <<storeVars, trackerVars, scraped_names, progress, name_changes_file,
                   i_pc, i_last, i_retries, i_reqs, uuid_cache, i_name_changes,
                   i_deferred, i_runs, i_hist>>

\* an empty line: the cursor is written and the loop continues
SkipEmptyLine ==
    /\ UNCHANGED outsideIngest
    /\ i_pc = "line"
    /\ i_line <= Len(scraped_names)
    /\ i_line > i_last
    /\ scraped_names[i_line] = EmptyLine
    /\ progress' = i_line
    /\ i_line' = i_line + 1
    /\ UNCHANGED <<storeVars, trackerVars, scraped_names, name_changes_file, i_pc,
                   i_last, i_retries, i_reqs, uuid_cache, i_name_changes, i_deferred,
                   i_runs, i_hist>>

\* "max_retries = 5"
MAX_INSERT_RETRIES == 5
\* what the store answers to one INSERT and commit: it goes through, it raises
\* OperationalError "database is locked", or it raises another sqlite3.Error
InsertOutcomes == {"ok", "locked", "error"}
AllLocked == [k \in 1..MAX_INSERT_RETRIES |-> "locked"]

\* every failed attempt is followed by another
RetriesAnyError(outcome) == outcome # "ok"
\* "if "database is locked" in str(e).lower()": sleep, then the next attempt
RetriesInsert(outcome) == outcome = "locked"

\* "for attempt in range(max_retries)": the attempt that ends the loop (the
\* first that goes through or fails otherwise, the last one when all are locked)
RECURSIVE LastAttempt(_, _)
LastAttempt(outcomes, attempt) ==
    IF attempt < MAX_INSERT_RETRIES /\ RetriesInsert(outcomes[attempt])
    THEN LastAttempt(outcomes, attempt + 1)
    ELSE attempt

\* status SUCCESS in process_scraped_names: add_uuid_to_discovery_queue, then
\* _update_last_processed_line(current_line_number) whatever the enqueue returned.
\* While the tracker's transaction is open every attempt meets the lock.
AfterSuccess(uuid) ==
    /\ \E outcomes \in (IF tx_marked # {} THEN {AllLocked}
                        ELSE [1..MAX_INSERT_RETRIES -> InsertOutcomes]) :
          LET known == \/ uuid \in DOMAIN players
                       \/ \E i \in 1..Len(player_discovery) :
                             /\ player_discovery[i].uuid = uuid
                             /\ ~player_discovery[i].processed
              last == LastAttempt(outcomes, 1)
              inserted == outcomes[last] = "ok"
          IN  /\ player_discovery' =
                    AddUuidToDiscoveryQueue(players, player_discovery, uuid,
                                            "mineflayer_scrape", ~inserted)
              /\ i_insert' =
                    IF known
                    THEN [calls |-> 1 - i_insert.calls, seen |-> <<>>, attempts |-> 0,
                          returned |-> FALSE]
                    ELSE [calls |-> 1 - i_insert.calls,
                          seen |-> SubSeq(outcomes, 1, last), attempts |-> last,
                          returned |-> inserted]
    /\ Len(player_discovery') <= MaxQueue
    /\ progress' = i_line
    /\ i_line' = i_line + 1
    /\ i_pc' = "line"

\* get_player_uuid_and_name for a cached name: the current name is looked up by
\* uuid; cur is the answer (None when the lookup failed)
ResolveCached ==
    /\ UNCHANGED outsideEnqueue
    /\ i_pc = "line"
    /\ i_line <= Len(scraped_names)
    /\ i_line > i_last
    /\ scraped_names[i_line] # EmptyLine
    /\ scraped_names[i_line] \in DOMAIN uuid_cache
    /\ LET name == scraped_names[i_line]
           uuid == uuid_cache[name]
       IN  /\ \E cur \in {"None", name, RenamedTo} :
                 IF cur # "None" /\ cur # name
                 THEN /\ i_name_changes' = LogNameChange(i_name_changes, name, cur)
                      /\ name_changes_file' = i_name_changes'
                      /\ uuid_cache' = DictDel(DictPut(uuid_cache, cur, uuid), name)
                 ELSE UNCHANGED <<i_name_changes, name_changes_file, uuid_cache>>
           /\ AfterSuccess(uuid)
    /\ i_hist' = Settled(Called(i_hist, i_line), i_line, "SUCCESS")
    /\ UNCHANGED <<players, otherPlayers, bedwars_stats, tx_marked, trackerVars,
                   scraped_names, i_last, i_retries, i_reqs, i_deferred, i_runs>>

\* get_player_uuid_and_name for a name not in the cache: the retry loop starts
ResolveBegin ==
    /\ UNCHANGED outsideIngest
    /\ i_pc = "line"
    /\ i_line <= Len(scraped_names)
    /\ i_line > i_last
    /\ scraped_names[i_line] # EmptyLine
    /\ scraped_names[i_line] \notin DOMAIN uuid_cache
    /\ i_retries' = 0
    /\ i_reqs' = 0
    /\ i_pc' = "resolve"
    /\ i_hist' = Called(i_hist, i_line)
    /\ UNCHANGED <<storeVars, trackerVars, scraped_names, progress, name_changes_file,
                   i_last, i_line, uuid_cache, i_name_changes, i_deferred, i_runs>>

\* 200 with an id: the uuid is formatted, cached and returned with SUCCESS
MojangFound ==
    /\ UNCHANGED outsideEnqueue
    /\ i_pc = "resolve"
    /\ i_reqs < MaxReqs
    /\ LET name == scraped_names[i_line]
           formatted == FormatUuid([id |-> NameId(name), form |-> "plain"])
       IN  /\ uuid_cache' = DictPut(uuid_cache, name, formatted)
           /\ AfterSuccess(formatted)
    /\ i_reqs' = i_reqs + 1
    /\ i_hist' = Settled(i_hist, i_line, "SUCCESS")
    /\ UNCHANGED <<players, otherPlayers, bedwars_stats, tx_marked, trackerVars,
                   scraped_names, name_changes_file, i_last, i_retries,
                   i_name_changes, i_deferred, i_runs>>

\* 200 without an id: no branch returns or counts a retry, the loop repeats
MojangNoId ==
    /\ UNCHANGED outsideIngest
    /\ i_pc = "resolve"
    /\ i_reqs < MaxReqs
    /\ i_reqs' = i_reqs + 1
    /\ UNCHANGED <<storeVars, trackerVars, scraped_names, progress, name_changes_file,
                   i_pc, i_last, i_line, i_retries, uuid_cache, i_name_changes,
                   i_deferred, i_runs, i_hist>>

\* 404: PLAYER_NOT_FOUND, the cursor is written
MojangNotFound ==
    /\ UNCHANGED outsideIngest
    /\ i_pc = "resolve"
    /\ i_reqs < MaxReqs
    /\ i_reqs' = i_reqs + 1
    /\ progress' = i_line
    /\ i_line' = i_line + 1
    /\ i_pc' = "line"
    /\ i_hist' = Settled(i_hist, i_line, "PLAYER_NOT_FOUND")
    /\ UNCHANGED <<storeVars, trackerVars, scraped_names, name_changes_file, i_last,
                   i_retries, uuid_cache, i_name_changes, i_deferred, i_runs>>

\* 429, another status or a request exception: retries += 1; after the third
\* the call returns ERROR and process_scraped_names leaves the cursor alone
MojangTransient ==
    /\ UNCHANGED outsideIngest
    /\ i_pc = "resolve"
    /\ i_reqs < MaxReqs
    /\ i_reqs' = i_reqs + 1
    /\ \E kind \in {"429", "other", "exception"} :
          IF i_retries + 1 < MAX_RETRIES
          THEN /\ i_retries' = i_retries + 1
               /\ UNCHANGED <<i_pc, i_line, i_deferred>>
          ELSE /\ i_retries' = i_retries + 1
               /\ i_deferred' = i_deferred \cup {i_line}
               /\ i_line' = i_line + 1
               /\ i_pc' = "line"
    /\ UNCHANGED <<storeVars, trackerVars, scraped_names, progress, name_changes_file,
                   i_last, uuid_cache, i_name_changes, i_runs, i_hist>>

\* ------------------------------------------------------------------------
\* The ingestor as the tracker's store sees it: the ingestor process, running
\* beside the tracker, resolves a name and calls add_uuid_to_discovery_queue
\* with the formatted uuid.  While the tracker's transaction is open every
\* INSERT attempt meets "database is locked".
\* ------------------------------------------------------------------------
ScrapeEnqueue ==
    /\ UNCHANGED outsideDiscovery
    /\ Len(player_discovery) < MaxQueue
    /\ \E k \in Identities :
          player_discovery' =
             AddUuidToDiscoveryQueue(players, player_discovery,
                                     [id |-> k, form |-> "dashed"],
                                     "mineflayer_scrape", tx_marked # {})
    /\ UNCHANGED <<players, otherPlayers, bedwars_stats, tx_marked, trackerVars>>

\* ------------------------------------------------------------------------
\* Components that do not run in a specification stay in these states
\* ------------------------------------------------------------------------
IdleIngest ==
    /\ scraped_names = <<>>
    /\ progress = 0
    /\ name_changes_file = <<>>
    /\ i_pc = "off"
    /\ i_last = 0
    /\ i_line = 0
    /\ i_retries = 0
    /\ i_reqs = 0
    /\ uuid_cache = <<>>
    /\ i_name_changes = <<>>
    /\ i_deferred = {}
    /\ i_runs = 0
    /\ i_hist = <<>>

IdleTracker ==
    /\ t_mode = "auto"
    /\ t_pc = "boot"
    /\ rate_limit_remaining = INITIAL_RATE_LIMIT
    /\ since_lb_fetch = HourTicks
    /\ seed_requests = [k \in 0..(HourTicks - 1) |-> 0]
    /\ t_batch = <<>>
    /\ t_idx = 1
    /\ t_calls = 0
    /\ stat_fetches = [i \in 1..MaxQueue |-> 0]

IdleSession ==
    /\ baseline = <<>>
    /\ session_log = [sessions |-> <<>>, winstreak |-> <<>>, summary |-> <<>>]
    /\ cooldown_file = <<>>
    /\ s_cooldowns = <<>>
    /\ s_name_changes = <<>>
    /\ s_now = 0
    /\ s_last = [op |-> "none", fetched |-> <<>>, repeat |-> FALSE]

IdleRecent ==
    /\ recent_games = <<>>
    /\ r_api_enabled = FALSE
    /\ r_dropped = <<>>
    /\ r_polls = 0

IdleWinstreak ==
    /\ w_est = <<>>
    /\ w_prev = <<>>
    /\ w_diff = [overall |-> [wins |-> 0, losses |-> 0], modes |-> <<>>]
    /\ w_api = <<>>
    /\ w_n = 0

IdleLeaderboards ==
    /\ leaderboards = <<>>
    /\ lb_fresh = FALSE
    /\ lb_now = 0

\* players.bedwars_level before the player's first save
NoLevel == -1

IdleLevels ==
    /\ lv_xp = 0
    /\ lv_level = NoLevel
    /\ lv_by = "none"

IdleLoop == loop_last = [reqs |-> {}, skips |-> 0]

IdleMain == main = [pc |-> "manual", interrupts |-> 0, polled |-> FALSE]

\* no make_api_request call is running; rate_limit_remaining and
\* rate_limit_reset of BedwarsStatsTracker are still None
NoCall ==
    [pc |-> "idle", who |-> "session", url |-> "player", frames |-> 0, sent |-> 0,
     last |-> 0, slept |-> 0, result |-> "", remaining |-> NoHeader,
     reset |-> NoHeader]
IdleApi == api_call = NoCall

\* add_uuid_to_discovery_queue has not been called
NoInsert == [calls |-> 0, seen |-> <<>>, attempts |-> 0, returned |-> FALSE]
IdleInsert == i_insert = NoInsert

\* neither process is inside an enqueue call
NoEnqueue == [pc |-> "idle", uuid |-> [id |-> 1, form |-> "dashed"]]
IdleEnq == enq = [tracker |-> NoEnqueue, ingestor |-> NoEnqueue]

IdleRatios ==
    /\ rt_wins = 0
    /\ rt_losses = 0
    /\ rt_ratio = [n |-> 0, d |-> 1]
    /\ rt_by = "none"

\* ------------------------------------------------------------------------
\* Specification of the discovery tracker, the ingestor enqueuing beside it
\* ------------------------------------------------------------------------
InitDiscovery ==
    /\ InitStore
    /\ InitTracker
    /\ IdleIngest
    /\ IdleSession
    /\ IdleRecent
    /\ IdleWinstreak
    /\ IdleLeaderboards
    /\ IdleLevels
    /\ IdleRatios
    /\ IdleLoop
    /\ IdleMain
    /\ IdleApi
    /\ IdleInsert
    /\ IdleEnq

NextDiscovery ==
    \/ InitialSeed
    \/ ShowMenu
    \/ CycleSeed
    \/ FindNewPlayersSeed
    \/ SelectBatch
    \/ BatchDone
    \/ RateLimitBreak
    \/ MarkProcessed
    \/ FetchNoStats
    \/ FetchStats
    \/ Tick
    \/ ScrapeEnqueue

SpecDiscovery == InitDiscovery /\ [][NextDiscovery]_vars

\* the ids of the rows that are unprocessed as the tracker's connection sees
\* the table (its own uncommitted marks included)
StillUnprocessed ==
    {j \in 1..Len(player_discovery) :
        ~player_discovery[j].processed /\ j \notin tx_marked}

C26_FloorEndsBatch ==
    [][(/\ t_pc = "loop"
        /\ t_idx <= Len(t_batch)
        /\ rate_limit_remaining <= RATE_LIMIT_FLOOR
        /\ t_pc' # t_pc) =>
          /\ t_pc' = "ready"
          /\ UNCHANGED <<tx_marked, stat_fetches, rate_limit_remaining, players,
                         bedwars_stats>>
          /\ \A j \in t_idx..Len(t_batch) :
                /\ ~player_discovery'[t_batch[j]].processed
                /\ t_batch[j] \notin tx_marked']_vars

\* a batch was ended at its second entry, the first one consumed, with the
\* budget exactly at the floor
C26_Witness ==
    /\ t_pc = "ready"
    /\ rate_limit_remaining = RATE_LIMIT_FLOOR
    /\ t_idx = 2
    /\ Len(t_batch) >= 2
    /\ player_discovery[t_batch[1]].processed
    /\ ~player_discovery[t_batch[2]].processed
    /\ stat_fetches[t_batch[2]] = 0

\* C1: the stat fetch of each queue entry is attempted at most once: an entry
\* consumed by one process_discovery_queue call (marked processed, its fetch
\* attempted, with stats or without) is not among the entries a later call
\* still has to fetch.
C1_FetchAtMostOnce ==
    /\ \A i \in 1..MaxQueue : stat_fetches[i] <= 1
    /\ t_pc \in {"loop", "fetch"} =>
          \A j \in t_idx..Len(t_batch) : stat_fetches[t_batch[j]] = 0

\* a later call has selected a batch while an entry whose fetch returned no
\* stats sits consumed in the queue
C1_Witness ==
    /\ t_pc = "loop"
    /\ t_calls >= 2
    /\ t_batch # <<>>
    /\ \E i \in 1..Len(player_discovery) :
          /\ stat_fetches[i] = 1
          /\ player_discovery[i].processed
          /\ player_discovery[i].uuid \notin DOMAIN players
          /\ i \notin Range(t_batch)

\* C13: in every committed state of the store every stat-snapshot row's uuid
\* is the uuid of a players row: save_player_stats writes the player row and
\* the snapshot in one transaction, the player row first.
C13_SnapshotHasPlayer ==
    \A i \in 1..Len(bedwars_stats) : bedwars_stats[i].uuid \in DOMAIN players

\* two queue entries were consumed with stats, their snapshots committed
C13_Witness ==
    /\ Len(bedwars_stats) >= 2
    /\ bedwars_stats[1].uuid # bedwars_stats[2].uuid
    /\ tx_marked = {}
    /\ t_pc = "loop"

\* C14: an identity is enqueued only if it is neither in players nor waiting
\* in the queue, in whichever textual form its uuid was supplied: no identity
\* has two unprocessed queue entries, and no step (seeding, guild walk, enqueue
\* by the ingestor) appends an entry for an identity that has a players row.
C14_EnqueueOnlyUnknown ==
    /\ [](\A i, j \in 1..Len(player_discovery) :
            (/\ i # j
             /\ ~player_discovery[i].processed
             /\ ~player_discovery[j].processed)
               => player_discovery[i].uuid.id # player_discovery[j].uuid.id)
    /\ [][\A i \in (Len(player_discovery) + 1)..Len(player_discovery') :
             \A u \in DOMAIN players' : u.id # player_discovery'[i].uuid.id]_vars

\* entries of all three provenances were enqueued while a player was known
C14_Witness ==
    /\ players # <<>>
    /\ \E i, j, k \in 1..Len(player_discovery) :
          /\ player_discovery[i].method = "leaderboard"
          /\ player_discovery[j].method = "guild"
          /\ player_discovery[k].method = "mineflayer_scrape"

\* ------------------------------------------------------------------------
\* Specification of the ingestor: runs of process_scraped_names over a names
\* file, the tracker not running.  The players table is empty or holds the
\* first identity, saved by an earlier tracker cycle.
\* ------------------------------------------------------------------------
KnownPlayer == [id |-> 1, form |-> "dashed"]

InitIngestorStore ==
    /\ players \in {<<>>,
                    KnownPlayer :> [username |-> DisplayName(1),
                                    discovery_method |-> "leaderboard"]}
    /\ otherPlayers = 0
    /\ bedwars_stats = <<>>
    /\ player_discovery = <<>>
    /\ tx_marked = {}

InitIngestor ==
    /\ InitIngestorStore
    /\ IdleTracker
    /\ InitIngest
    /\ IdleSession
    /\ IdleRecent
    /\ IdleWinstreak
    /\ IdleLeaderboards
    /\ IdleLevels
    /\ IdleRatios
    /\ IdleLoop
    /\ IdleMain
    /\ IdleApi
    /\ IdleInsert
    /\ IdleEnq

NextIngestor ==
    \/ IngestorStart
    \/ IngestorFinish
    \/ SkipProcessedLine
    \/ SkipEmptyLine
    \/ ResolveCached
    \/ ResolveBegin
    \/ MojangFound
    \/ MojangNoId
    \/ MojangNotFound
    \/ MojangTransient

SpecIngestor == InitIngestor /\ [][NextIngestor]_vars

\* the identity a line's name resolves to, as the ingestor stores it
LineUuid(line) == FormatUuid([id |-> NameId(scraped_names[line]), form |-> "plain"])

\* C39: once the persisted cursor has passed a line whose name resolved with
\* SUCCESS, the resolved identity is in players or has an entry in the
\* discovery queue, also when the enqueue write met store contention.
C39_ResolvedNameKept ==
    \A line \in 1..Len(scraped_names) :
       (line <= progress /\ i_hist[line].status = "SUCCESS") =>
          \/ LineUuid(line) \in DOMAIN players
          \/ \E i \in 1..Len(player_discovery) :
                player_discovery[i].uuid = LineUuid(line)

\* the first line resolved, its enqueue met the lock and was given up, and
\* the cursor stands on the line
C39_Witness ==
    /\ progress >= 1
    /\ i_hist[1].status = "SUCCESS"
    /\ i_insert.attempts >= 1
    /\ i_insert.seen[1] = "locked"
    /\ ~i_insert.returned

\* C30: add_uuid_to_discovery_queue attempts the INSERT at most
\* MAX_INSERT_RETRIES times, going on to another attempt only after the store
\* answered "database is locked"; when every attempt met the lock, or when an
\* attempt failed with another storage error (the attempt it abandons the write
\* at), it returns False and the queue is as it was; it returns True only when
\* an attempt went through, and then the row is in the queue.  Whatever it
\* returned, process_scraped_names writes the cursor and goes on to the next
\* line.
C30_BoundedInsertRetries ==
    [][i_insert' # i_insert =>
          LET call == i_insert'
          IN  /\ call.attempts <= MAX_INSERT_RETRIES
              /\ Len(call.seen) = call.attempts
              /\ \A k \in 1..(call.attempts - 1) : call.seen[k] = "locked"
              /\ call.returned =
                    (call.attempts >= 1 /\ call.seen[call.attempts] = "ok")
              /\ IF call.returned
                 THEN /\ Len(player_discovery') = Len(player_discovery) + 1
                      /\ SubSeq(player_discovery', 1, Len(player_discovery))
                            = player_discovery
                 ELSE player_discovery' = player_discovery
              /\ i_pc' = "line"
              /\ i_line' = i_line + 1
              /\ progress' = i_line]_vars

\* the store answered "database is locked" to all MAX_INSERT_RETRIES attempts:
\* the call returned False, the queue is empty and the run is at the next line
C30_Witness ==
    /\ i_insert.attempts = MAX_INSERT_RETRIES
    /\ i_insert.seen = AllLocked
    /\ ~i_insert.returned
    /\ player_discovery = <<>>
    /\ i_pc = "line"
    /\ progress = 1
    /\ i_line = 2

\* C29: for a name not in the cache get_player_uuid_and_name sends at most
\* MAX_RETRIES requests to the identity API whatever the responses are (200
\* with an id, 200 without an id, 404, 429, another status, a network error):
\* while the call is running fewer than MAX_RETRIES requests have been
\* answered, and it comes back with SUCCESS or PLAYER_NOT_FOUND (the cursor is
\* written) or with ERROR (the line is reported for a later run).
C29_AtMostThreeRequests ==
    /\ [](i_reqs <= MAX_RETRIES)
    /\ [](i_pc = "resolve" => i_reqs < MAX_RETRIES)
    /\ [][(i_pc = "resolve" /\ i_pc' # "resolve") =>
             (progress' = i_line \/ i_line \in i_deferred')]_vars

\* the identity API has answered 200 without an id more than MAX_RETRIES times:
\* no retry was counted and the call is still running
C29_Witness ==
    /\ i_pc = "resolve"
    /\ i_reqs > MAX_RETRIES
    /\ i_retries = 0

\* no list of the log holds two events with the same new name
NoRepeatedNewName(nc) ==
    \A old \in DOMAIN nc :
       \A i, j \in 1..Len(nc[old]) : i # j => nc[old][i] # nc[old][j]

\* C23: after any sequence of name changes logged by the session tracker and
\* by the name-resolution step of the ingestor into the one name-change file,
\* the list kept for an old name holds at most one event per new name, also
\* across restarts of either component.
C23_OneEventPerNewName == NoRepeatedNewName(name_changes_file)

\* a second run of the ingestor, started with the cache loaded from players
\* again, has logged the change it had logged in its first run
C23_Witness ==
    /\ i_runs >= 1
    /\ \E old \in DOMAIN name_changes_file :
          /\ Len(name_changes_file[old]) >= 2
          /\ name_changes_file[old][1] = name_changes_file[old][2]

\* C2: a line whose resolution ended in ERROR is not passed by the persisted
\* cursor: when the run is over the cursor is below every line the run
\* deferred, so the next run processes those lines again.
C2_ErrorLineNotPassed ==
    (i_pc = "off" /\ i_runs > 0) => \A l \in i_deferred : progress < l

\* a run is over that deferred a line and resolved a later one
C2_Witness ==
    /\ i_pc = "off"
    /\ i_runs > 0
    /\ \E l \in i_deferred : l < Len(scraped_names) /\ progress > l

\* C15: the persisted cursor never decreases, a run handles no line at or
\* before the cursor it started from, and a line whose outcome was SUCCESS or
\* PLAYER_NOT_FOUND is never resolved again.
C15_SettledLineNotResolvedAgain ==
    /\ [][progress' >= progress]_vars
    /\ [](i_pc = "resolve" => i_line > i_last)
    /\ [](\A l \in DOMAIN i_hist : ~i_hist[l].again)

\* a second run has skipped a line settled with SUCCESS and a line settled
\* with PLAYER_NOT_FOUND
C15_Witness ==
    /\ i_runs >= 1
    /\ i_pc = "line"
    /\ i_line > Len(scraped_names)
    /\ i_last = Len(scraped_names)
    /\ \E l, m \in DOMAIN i_hist :
          i_hist[l].status = "SUCCESS" /\ i_hist[m].status = "PLAYER_NOT_FOUND"

\* ------------------------------------------------------------------------
\* Specification of run_automatic under the scheduling the program has: the
\* process keeps running (each step of the loop is taken when it is the next
\* one), time passes, and the API answers normally with its budget resetting:
\* a request the tracker sends again and again is answered, again and again,
\* with a RateLimit-Remaining above the floor.
\* ------------------------------------------------------------------------
InitAutomatic ==
    /\ InitDiscovery
    /\ t_mode = "auto"

NextAutomatic ==
    \/ InitialSeed
    \/ CycleSeed
    \/ SelectBatch
    \/ BatchDone
    \/ RateLimitBreak
    \/ MarkProcessed
    \/ FetchNoStats
    \/ FetchStats
    \/ Tick
    \/ ScrapeEnqueue

\* a step of the tracker after which the budget it knows is above the floor
BudgetAboveFloor ==
    /\ InitialSeed \/ CycleSeed \/ FetchNoStats \/ FetchStats
    /\ rate_limit_remaining' > RATE_LIMIT_FLOOR

FairAutomatic ==
    /\ WF_vars(InitialSeed)
    /\ WF_vars(CycleSeed)
    /\ WF_vars(SelectBatch)
    /\ WF_vars(BatchDone)
    /\ WF_vars(RateLimitBreak)
    /\ WF_vars(MarkProcessed)
    /\ WF_vars(FetchNoStats \/ FetchStats)
    /\ WF_vars(Tick)
    /\ SF_vars(BudgetAboveFloor)

SpecAutomatic == InitAutomatic /\ [][NextAutomatic]_vars /\ FairAutomatic

\* process_discovery_queue has just stopped a batch at the floor
RateLimitStopped ==
    /\ t_pc = "ready"
    /\ t_idx <= Len(t_batch)
    /\ rate_limit_remaining <= RATE_LIMIT_FLOOR

EntryUnprocessed(i) == i <= Len(player_discovery) /\ ~player_discovery[i].processed

EntryProcessed(i) == i <= Len(player_discovery) /\ player_discovery[i].processed

\* C3: after a batch was stopped at the rate-limit floor, consumption resumes
\* in a later cycle of run_automatic: every entry that was unprocessed when the
\* batch stopped is eventually marked processed.
C3_ResumesAfterStop ==
    \A i \in 1..MaxQueue :
        (RateLimitStopped /\ EntryUnprocessed(i)) ~> EntryProcessed(i)

\* a batch was stopped at the floor with an entry left unprocessed
C3_Witness ==
    /\ RateLimitStopped
    /\ \E i \in 1..MaxQueue : EntryUnprocessed(i)

\* leaderboard requests sent during the ticks 0..k of the last hour
RECURSIVE RequestsWithin(_)
RequestsWithin(k) ==
    IF k < 0 THEN 0 ELSE seed_requests[k] + RequestsWithin(k - 1)

\* C22: within one tracker process, seed_from_leaderboards sends at most one
\* leaderboard request in any one-hour window, whichever caller invokes it and
\* whatever the outcome of the earlier requests.
C22_OneRequestPerHour == RequestsWithin(HourTicks - 1) <= 1

\* a second leaderboard request went out within the hour of the first, which
\* had failed: last_leaderboard_fetch is still the time set at construction
C22_Witness ==
    /\ RequestsWithin(HourTicks - 1) >= 2
    /\ since_lb_fetch = HourTicks
    /\ player_discovery = <<>>

\* ------------------------------------------------------------------------
\* BedwarsStatsTracker: stats as the API reports them and as they are parsed
\* ------------------------------------------------------------------------
\* overall wins and losses the API reports in the model
MaxWins == 2
MaxLosses == 1
\* wins and losses of the one mode (solos) whose counters move in the model
MaxModeWins == 1
MaxModeLosses == 1
\* the winstreak value the API reports when it reports one
ShownStreak == 1

\* stats.get("winstreak") is None: the API does not report the winstreak
NoStreak == -1

Modes == {"solos", "doubles", "threes", "fours"}

\* the key prefix _parse_bedwars_stats passes for each mode
ModePrefix(m) ==
    CASE m = "solos" -> "eight_one"
      [] m = "doubles" -> "eight_two"
      [] m = "threes" -> "four_three"
      [] OTHER -> "four_four"

\* dict.get(key, default)
Get(d, k, default) == IF k \in DOMAIN d THEN d[k] ELSE default

\* the raw stats.Bedwars object: a counter that is 0 and a winstreak that is
\* hidden are absent from the object
RawField(k, v, absent) == IF v = absent THEN <<>> ELSE k :> v

RawBedwars(w, l, ws, sw, sl, sws) ==
    RawField("wins_bedwars", w, 0) @@ RawField("losses_bedwars", l, 0)
    @@ RawField("winstreak", ws, NoStreak)
    @@ RawField("eight_one_wins_bedwars", sw, 0)
    @@ RawField("eight_one_losses_bedwars", sl, 0)
    @@ RawField("eight_one_winstreak", sws, NoStreak)

\* whether the player lets the API show winstreaks decides all winstreak fields
Shown(visible) == IF visible THEN ShownStreak ELSE NoStreak

RawResponses ==
    {RawBedwars(w, l, Shown(visible), sw, sl, Shown(visible)) :
        w \in 0..MaxWins, l \in 0..MaxLosses, sw \in 0..MaxModeWins,
        sl \in 0..MaxModeLosses, visible \in BOOLEAN}

\* _parse_mode_stats (the WLR field is not modelled)
ParseModeStats(raw, prefix) ==
    [wins |-> Get(raw, prefix \o "_wins_bedwars", 0),
     losses |-> Get(raw, prefix \o "_losses_bedwars", 0),
     winstreak |-> Get(raw, prefix \o "_winstreak", NoStreak)]

\* _parse_bedwars_stats (the WLR field is not modelled)
ParseBedwarsStats(raw) ==
    [wins |-> Get(raw, "wins_bedwars", 0),
     losses |-> Get(raw, "losses_bedwars", 0),
     winstreak |-> Get(raw, "winstreak", NoStreak),
     modes |-> [m \in Modes |-> ParseModeStats(raw, ModePrefix(m))]]

\* the diff that lists a mode only when its wins moved
DiffOfWonModes(current_stats, baseline_stats) ==
    LET base(m) == Get(baseline_stats.modes, m, [wins |-> 0, losses |-> 0])
        wins_diff(m) == current_stats.modes[m].wins - base(m).wins
        losses_diff(m) == current_stats.modes[m].losses - base(m).losses
        listed == {m \in DOMAIN current_stats.modes : wins_diff(m) # 0}
    IN  [overall |-> [wins |-> current_stats.wins - baseline_stats.wins,
                      losses |-> current_stats.losses - baseline_stats.losses],
         modes |-> [m \in listed |-> [wins |-> wins_diff(m), losses |-> losses_diff(m)]]]

\* calculate_session_diff (the WLR fields are not modelled)
CalculateSessionDiff(current_stats, baseline_stats) ==
    LET base(m) == Get(baseline_stats.modes, m, [wins |-> 0, losses |-> 0])
        wins_diff(m) == current_stats.modes[m].wins - base(m).wins
        losses_diff(m) == current_stats.modes[m].losses - base(m).losses
        listed == {m \in DOMAIN current_stats.modes :
                      wins_diff(m) # 0 \/ losses_diff(m) # 0}
    IN  [overall |-> [wins |-> current_stats.wins - baseline_stats.wins,
                      losses |-> current_stats.losses - baseline_stats.losses],
         modes |-> [m \in listed |-> [wins |-> wins_diff(m), losses |-> losses_diff(m)]]]

\* ------------------------------------------------------------------------
\* BedwarsStatsTracker.update_winstreak_estimates
\* ------------------------------------------------------------------------
\* "likely" is a float: it is kept as a fraction in lowest terms
RECURSIVE Gcd(_, _)
Gcd(a, b) == IF b = 0 THEN a ELSE Gcd(b, a % b)

Frac(n, d) == LET g == Gcd(n, d) IN [n |-> n \div g, d |-> d \div g]

FracPlus(f, k) == Frac(f.n + k * f.d, f.d)

\* {"min_possible": 0, "max_possible": 0, "likely": 0.0}: no "api_value" key
ZeroEstimate ==
    [api_value |-> NoStreak, min_possible |-> 0, max_possible |-> 0, likely |-> Frac(0, 1)]

\* the rule without the reset a loss makes
EstimateAfterNoReset(prior, wins, losses, api_winstreak) ==
    IF api_winstreak # NoStreak
    THEN [api_value |-> api_winstreak, min_possible |-> api_winstreak,
          max_possible |-> api_winstreak, likely |-> Frac(api_winstreak, 1)]
    ELSE [prior EXCEPT !.min_possible = @ + wins,
                       !.max_possible = @ + wins,
                       !.likely = FracPlus(@, wins)]

\* the rule without the trust in the API's value
EstimateAfterIgnoringApi(prior, wins, losses, api_winstreak) ==
    IF losses > 0
    THEN [prior EXCEPT !.min_possible = 0,
                       !.max_possible = wins,
                       !.likely = Frac(wins, losses + 1)]
    ELSE [prior EXCEPT !.min_possible = @ + wins,
                       !.max_possible = @ + wins,
                       !.likely = FracPlus(@, wins)]

\* the rule that leaves "likely" alone when the session has a loss
EstimateAfterKeepingLikely(prior, wins, losses, api_winstreak) ==
    IF api_winstreak # NoStreak
    THEN [api_value |-> api_winstreak, min_possible |-> api_winstreak,
          max_possible |-> api_winstreak, likely |-> Frac(api_winstreak, 1)]
    ELSE IF losses > 0
         THEN [prior EXCEPT !.min_possible = 0,
                            !.max_possible = wins]
         ELSE [prior EXCEPT !.min_possible = @ + wins,
                            !.max_possible = @ + wins,
                            !.likely = FracPlus(@, wins)]

\* the body of the loop after "if scope not in winstreak_data": the estimate of
\* one scope after a session with the given wins, losses and API winstreak
EstimateAfter(prior, wins, losses, api_winstreak) ==
    IF api_winstreak # NoStreak
    THEN [api_value |-> api_winstreak, min_possible |-> api_winstreak,
          max_possible |-> api_winstreak, likely |-> Frac(api_winstreak, 1)]
    ELSE IF losses > 0
         THEN [prior EXCEPT !.min_possible = 0,
                            !.max_possible = wins,
                            !.likely = Frac(wins, losses + 1)]
         ELSE [prior EXCEPT !.min_possible = @ + wins,
                            !.max_possible = @ + wins,
                            !.likely = FracPlus(@, wins)]

\* current_stats.get("winstreak") / current_stats["modes"].get(scope, {}).get("winstreak")
ApiWinstreak(current_stats, scope) ==
    IF scope = "overall"
    THEN current_stats.winstreak
    ELSE IF scope \in DOMAIN current_stats.modes
         THEN current_stats.modes[scope].winstreak
         ELSE NoStreak

\* update_winstreak_estimates: scopes = ["overall"] + the modes of the diff;
\* for "overall" and for every mode alike
\*     wins, losses = diff["overall"]["wins"], diff["overall"]["losses"]
\* and a scope with wins == 0 and losses == 0 is passed over
UpdateWinstreakEstimates(winstreak_data, diff, current_stats) ==
    LET wins == diff.overall.wins
        losses == diff.overall.losses
        scopes == IF wins = 0 /\ losses = 0
                  THEN {}
                  ELSE {"overall"} \cup DOMAIN diff.modes
    IN  [scope \in DOMAIN winstreak_data \cup scopes |->
            IF scope \in scopes
            THEN EstimateAfter(Get(winstreak_data, scope, ZeroEstimate), wins, losses,
                               ApiWinstreak(current_stats, scope))
            ELSE winstreak_data[scope]]

\* ------------------------------------------------------------------------
\* BedwarsStatsTracker.process_player_session and the tracking loop
\* ------------------------------------------------------------------------
PLAYER_COOLDOWN_MINUTES == 30
\* minutes one step of the clock takes, and the last minute of the clock
TickMinutes == 30
MaxClock == 60

\* the one player of the manual list
TrackedName == DisplayName(1)

\* str.lower() on the names of the model
Lower(n) == IF n = "A" THEN "a" ELSE n

\* displaynames the stats API may report for the tracked player
ReportedNames == {TrackedName, "A", RenamedTo}

\* fetch_player_stats: the name change is appended unless a record with this
\* new_name is already in the old name's list
RecordNameChange(nc, original_name, current_name) ==
    IF Lower(current_name) = Lower(original_name)
    THEN nc
    ELSE LET records == Get(nc, original_name, <<>>)
         IN  IF \E i \in 1..Len(records) : records[i] = current_name
             THEN DictPut(nc, original_name, records)
             ELSE DictPut(nc, original_name, Append(records, current_name))

\* the test without the window: any cooldown entry stops the iteration
CooldownEntryPresent == TrackedName \in DOMAIN s_cooldowns

\* run(): the cooldown test of the loop
InCooldown ==
    /\ TrackedName \in DOMAIN s_cooldowns
    /\ s_now < s_cooldowns[TrackedName].last_check + PLAYER_COOLDOWN_MINUTES

\* a response is one the API can give: a mode's counters are within the overall
\* ones, and no counter is below the one fetched before
Consistent(stats) ==
    \A m \in Modes : stats.modes[m].wins <= stats.wins /\ stats.modes[m].losses <= stats.losses

NotBelow(stats, earlier) ==
    /\ stats.wins >= earlier.wins
    /\ stats.losses >= earlier.losses
    /\ \A m \in Modes : /\ stats.modes[m].wins >= earlier.modes[m].wins
                        /\ stats.modes[m].losses >= earlier.modes[m].losses

\* the always-false test
NeverUnchanged(current_stats, baseline_stats) == FALSE

\* "current_stats["wins"] == baseline_stats["wins"] and ... ["losses"] == ..."
StatsUnchanged(current_stats, baseline_stats) ==
    current_stats.wins = baseline_stats.wins /\ current_stats.losses = baseline_stats.losses

\* the count without the + 1
SessionCount(sessions) == Cardinality(DOMAIN sessions)

\* session_num = sum(1 for k in session_data if k.startswith("session_")) + 1
SessionNum(sessions) == Cardinality(DOMAIN sessions) + 1

\* sorted(..., key=lambda k: int(k.split("_")[1]))
RECURSIVE SortedKeys(_)
SortedKeys(K) ==
    IF K = {}
    THEN <<>>
    ELSE LET least == CHOOSE k \in K : \A j \in K : k <= j
         IN  <<least>> \o SortedKeys(K \ {least})

\* build_session_summary: one line per session, in key order, naming the
\* session number and each listed mode's W/L
BuildSessionSummary(sessions) ==
    LET keys == SortedKeys(DOMAIN sessions)
    IN  [i \in 1..Len(keys) |-> [session |-> keys[i], modes |-> sessions[keys[i]].modes]]

\* the first run writing a first session against an all-zero baseline
BootstrapLoggingSession(current_stats) ==
    LET zero == [wins |-> 0, losses |-> 0, modes |-> <<>>]
        sessions == 1 :> CalculateSessionDiff(current_stats, zero)
    IN  /\ baseline' = <<current_stats>>
        /\ session_log' = [sessions |-> sessions, winstreak |-> <<>>,
                           summary |-> BuildSessionSummary(sessions)]
        /\ UNCHANGED <<cooldown_file, s_cooldowns>>

\* "if not baseline_stats": the fetched stats are saved as the baseline and
\* the call returns
Bootstrap(current_stats) ==
    /\ baseline' = <<current_stats>>
    /\ UNCHANGED <<session_log, cooldown_file, s_cooldowns>>

\* the failed fetch taken for a player without games: the baseline is dropped
FailureDropsBaseline ==
    /\ s_last' = [s_last EXCEPT !.op = "failed", !.repeat = FALSE]
    /\ baseline' = <<>>
    /\ UNCHANGED <<name_changes_file, session_log, cooldown_file, s_cooldowns,
                   s_name_changes>>

\* process_player_session, the fetch failing: "Could not fetch stats", nothing
\* is written
CouldNotFetchStats ==
    /\ s_last' = [s_last EXCEPT !.op = "failed", !.repeat = FALSE]
    /\ UNCHANGED <<name_changes_file, baseline, session_log, cooldown_file, s_cooldowns,
                   s_name_changes>>

SessionFetchFailed ==
    /\ UNCHANGED outsideSession
    /\ ~InCooldown
    /\ CouldNotFetchStats
    /\ UNCHANGED s_now

\* the test without its upper end
AtLeastOneGame(games_played) == 1 <= games_played

\* "if 1 <= games_played <= 2": the player has the API on
ApiOnSession(games_played) == 1 <= games_played /\ games_played <= 2

\* process_player_session, the API answering raw under the name current_name
ProcessPlayerSessionOn(raw, current_name) ==
    LET current_stats == ParseBedwarsStats(raw)
        changes == RecordNameChange(s_name_changes, TrackedName, current_name)
        written == changes # s_name_changes
        diff == CalculateSessionDiff(current_stats, baseline[1])
        games_played == diff.overall.wins + diff.overall.losses
        session_num == SessionNum(session_log.sessions)
        winstreak == UpdateWinstreakEstimates(session_log.winstreak, diff,
                                              current_stats)
        sessions == DictPut(session_log.sessions, session_num, diff)
        op == IF baseline = <<>>
              THEN "bootstrap"
              ELSE IF StatsUnchanged(current_stats, baseline[1])
                   THEN "noop"
                   ELSE "logged"
    IN  /\ Consistent(current_stats)
        /\ s_last.fetched # <<>> => NotBelow(current_stats, s_last.fetched[1])
        /\ s_name_changes' = changes
        /\ name_changes_file' = IF written THEN changes ELSE name_changes_file
        /\ s_last' = [op |-> op, fetched |-> <<current_stats>>,
                      repeat |-> s_last.fetched = <<current_stats>>]
        /\ CASE op = "bootstrap" -> Bootstrap(current_stats)
             [] op = "noop" ->
                  UNCHANGED <<baseline, session_log, cooldown_file, s_cooldowns>>
             [] OTHER ->
                  /\ IF ApiOnSession(games_played)
                     THEN /\ s_cooldowns' =
                                DictPut(s_cooldowns, TrackedName,
                                        [last_check |-> s_now, api_on |-> TRUE])
                          /\ cooldown_file' = s_cooldowns'
                     ELSE UNCHANGED <<cooldown_file, s_cooldowns>>
                  /\ session_log' = [sessions |-> sessions,
                                     winstreak |-> winstreak,
                                     summary |-> BuildSessionSummary(sessions)]
                  /\ baseline' = <<current_stats>>

\* process_player_session with a successful fetch
ProcessPlayerSession ==
    /\ UNCHANGED outsideSession
    /\ ~InCooldown
    /\ \E raw \in RawResponses, current_name \in ReportedNames :
          ProcessPlayerSessionOn(raw, current_name)
    /\ UNCHANGED s_now

\* run(): the player is in cooldown, the iteration is skipped
SkipCooldown ==
    /\ UNCHANGED outsideSession
    /\ InCooldown
    /\ s_last' = [s_last EXCEPT !.op = "skipped", !.repeat = FALSE]
    /\ UNCHANGED <<name_changes_file, baseline, session_log, cooldown_file, s_cooldowns,
                   s_name_changes, s_now>>

\* time passes
SessionTick ==
    /\ UNCHANGED outsideSession
    /\ s_now < MaxClock
    /\ s_now' = s_now + TickMinutes
    /\ UNCHANGED <<name_changes_file, baseline, session_log, cooldown_file, s_cooldowns,
                   s_name_changes, s_last>>

\* ------------------------------------------------------------------------
\* Specification of the session tracker for the tracked player, starting with
\* no baseline, no session log and no cooldown entry
\* ------------------------------------------------------------------------
IdleStore ==
    /\ players = <<>>
    /\ otherPlayers = 0
    /\ bedwars_stats = <<>>
    /\ player_discovery = <<>>
    /\ tx_marked = {}

InitSessions ==
    /\ IdleStore
    /\ IdleTracker
    /\ IdleIngest
    /\ IdleSession
    /\ IdleRecent
    /\ IdleWinstreak
    /\ IdleLeaderboards
    /\ IdleLevels
    /\ IdleRatios
    /\ IdleLoop
    /\ IdleMain
    /\ IdleApi
    /\ IdleInsert
    /\ IdleEnq

NextSessions ==
    \/ ProcessPlayerSession
    \/ SessionFetchFailed
    \/ SkipCooldown
    \/ SessionTick

SpecSessions == InitSessions /\ [][NextSessions]_vars

\* C32: for every session that is logged, the overall diff is the fetched
\* stats minus the baseline in wins and in losses, each mode listed in the diff
\* carries that mode's fetched wins and losses minus the baseline's, and a mode
\* is listed exactly when its wins or its losses moved.  (The step that logs
\* the session stores the fetched stats as the new baseline.)
C32_DiffIsCurrentMinusBaseline ==
    [][DOMAIN session_log'.sessions # DOMAIN session_log.sessions =>
          \A n \in DOMAIN session_log'.sessions \ DOMAIN session_log.sessions :
             LET diff == session_log'.sessions[n]
                 cur == baseline'[1]
                 base == baseline[1]
             IN  /\ diff.overall.wins = cur.wins - base.wins
                 /\ diff.overall.losses = cur.losses - base.losses
                 /\ \A m \in Modes :
                       LET w == cur.modes[m].wins - base.modes[m].wins
                           l == cur.modes[m].losses - base.modes[m].losses
                       IN  /\ (m \in DOMAIN diff.modes) = (w # 0 \/ l # 0)
                           /\ m \in DOMAIN diff.modes =>
                                 /\ diff.modes[m].wins = w
                                 /\ diff.modes[m].losses = l]_vars

\* a logged session that lists solos with a loss and no win, and no other mode
C32_Witness ==
    \E n \in DOMAIN session_log.sessions :
       /\ DOMAIN session_log.sessions[n].modes = {"solos"}
       /\ session_log.sessions[n].modes["solos"] = [wins |-> 0, losses |-> 1]
       /\ session_log.sessions[n].overall.losses = 1

\* the overall wins and losses summed over the logged sessions
RECURSIVE SumOverall(_, _)
SumOverall(sessions, K) ==
    IF K = {}
    THEN [wins |-> 0, losses |-> 0]
    ELSE LET n == CHOOSE x \in K : TRUE
             rest == SumOverall(sessions, K \ {n})
         IN  [wins |-> rest.wins + sessions[n].overall.wins,
              losses |-> rest.losses + sessions[n].overall.losses]

LoggedTotal == SumOverall(session_log.sessions, DOMAIN session_log.sessions)

\* C34: the logged sessions account exactly for the movement of the baseline.
\* Nothing is logged before the first baseline is stored nor by the step that
\* stores it, and from then on every step moves the sum of the logged overall
\* win deltas by what the baseline's wins moved, and likewise for losses; so
\* the sum always equals the baseline minus the first baseline.
C34_SessionsSumToBaselineMovement ==
    /\ [](baseline = <<>> => DOMAIN session_log.sessions = {})
    /\ [][(baseline = <<>> /\ baseline' # <<>>) =>
             LoggedTotal' = [wins |-> 0, losses |-> 0]]_vars
    /\ [][baseline # <<>> =>
             (/\ baseline' # <<>>
              /\ LoggedTotal'.wins - LoggedTotal.wins
                    = baseline'[1].wins - baseline[1].wins
              /\ LoggedTotal'.losses - LoggedTotal.losses
                    = baseline'[1].losses - baseline[1].losses)]_vars

\* two sessions logged, one win each, the baseline two wins past a first
\* baseline without wins
C34_Witness ==
    /\ DOMAIN session_log.sessions = {1, 2}
    /\ session_log.sessions[1].overall.wins = 1
    /\ session_log.sessions[2].overall.wins = 1
    /\ baseline # <<>>
    /\ baseline[1].wins = 2

\* C4: a process_player_session call that fetches the same stats as the call
\* before it adds no session entry, leaves the baseline unchanged and adds no
\* cooldown entry.
C4_SameStatsNoEffect ==
    [][s_last'.repeat =>
          UNCHANGED <<session_log, baseline, cooldown_file, s_cooldowns>>]_vars

\* the call after one that logged a session fetched the same stats again
C4_Witness ==
    /\ s_last.repeat
    /\ s_last.op = "noop"
    /\ DOMAIN session_log.sessions # {}
    /\ baseline = s_last.fetched

\* C5: the session keys of the log are exactly session_1..session_k; a call
\* that logs a session adds exactly the key session_(k+1) and leaves every
\* earlier entry unchanged.
C5_DenseSessionKeys ==
    /\ [](DOMAIN session_log.sessions = 1..Cardinality(DOMAIN session_log.sessions))
    /\ [][session_log'.sessions # session_log.sessions =>
             /\ DOMAIN session_log'.sessions =
                   DOMAIN session_log.sessions
                      \cup {Cardinality(DOMAIN session_log.sessions) + 1}
             /\ Cardinality(DOMAIN session_log.sessions) + 1
                   \notin DOMAIN session_log.sessions
             /\ \A k \in DOMAIN session_log.sessions :
                   session_log'.sessions[k] = session_log.sessions[k]]_vars

\* three sessions were logged, one after the other
C5_Witness ==
    /\ DOMAIN session_log.sessions = {1, 2, 3}
    /\ s_last.op = "logged"

\* a step of process_player_session whose fetch succeeded
FetchSucceeded == s_now' = s_now /\ s_last'.op \in {"bootstrap", "noop", "logged"}

\* C11: a process_player_session call that fetches stats while no baseline
\* exists stores the fetched stats as the baseline and does nothing else: the
\* session log (sessions, winstreak estimates, summary) and the cooldown
\* entries, in memory and on disk, are as they were.
C11_BootstrapOnlyBaseline ==
    [][(baseline = <<>> /\ FetchSucceeded) =>
          /\ baseline' = s_last'.fetched
          /\ UNCHANGED <<session_log, cooldown_file, s_cooldowns>>]_vars

\* the first run fetched stats with games in them: a baseline and nothing else
C11_Witness ==
    /\ s_last.op = "bootstrap"
    /\ baseline = s_last.fetched
    /\ baseline[1].wins > 0
    /\ baseline[1].modes["solos"].losses > 0
    /\ baseline[1].winstreak # NoStreak
    /\ session_log = [sessions |-> <<>>, winstreak |-> <<>>, summary |-> <<>>]
    /\ s_cooldowns = <<>>
    /\ cooldown_file = <<>>

\* C21: a process_player_session call sets the player's cooldown entry to
\* (last_check = now, api_on = true), in memory and in the cooldown file,
\* exactly when it logs a session whose overall wins + losses delta is 1 or 2;
\* a session of 3 or more games, a bootstrap call, a no-op call, a failed fetch
\* and a skipped iteration leave the cooldown table as it is.
C21_CooldownOnShortSession ==
    [][s_now' = s_now =>
          LET logged == DOMAIN session_log'.sessions # DOMAIN session_log.sessions
              games == (s_last'.fetched[1].wins - baseline[1].wins)
                          + (s_last'.fetched[1].losses - baseline[1].losses)
          IN  IF logged /\ games \in 1..2
              THEN /\ TrackedName \in DOMAIN s_cooldowns'
                   /\ s_cooldowns'[TrackedName] = [last_check |-> s_now, api_on |-> TRUE]
                   /\ \A n \in DOMAIN s_cooldowns \ {TrackedName} :
                         n \in DOMAIN s_cooldowns' /\ s_cooldowns'[n] = s_cooldowns[n]
                   /\ cooldown_file' = s_cooldowns'
              ELSE UNCHANGED <<s_cooldowns, cooldown_file>>]_vars

\* a short session logged once the window of an earlier entry had elapsed has
\* just written the entry again
C21_Witness ==
    /\ s_last.op = "logged"
    /\ Cardinality(DOMAIN session_log.sessions) >= 2
    /\ TrackedName \in DOMAIN s_cooldowns
    /\ s_cooldowns[TrackedName].last_check = s_now
    /\ s_now >= PLAYER_COOLDOWN_MINUTES

\* C12: every process_player_session call that fetches stats for a player
\* with a baseline leaves the baseline equal to the stats just fetched and the
\* session log with a summary regenerated from its sessions, also when the
\* overall wins and losses did not change.
C12_BaselineFollowsFetch ==
    [][(baseline # <<>> /\ FetchSucceeded) =>
          /\ baseline' = s_last'.fetched
          /\ session_log'.summary = BuildSessionSummary(session_log'.sessions)]_vars

\* a call returned at the wins/losses comparison although the fetched stats
\* differ from the baseline
C12_Witness ==
    /\ s_last.op = "noop"
    /\ baseline # <<>>
    /\ baseline # s_last.fetched
    /\ baseline[1].wins = s_last.fetched[1].wins
    /\ baseline[1].losses = s_last.fetched[1].losses

\* ------------------------------------------------------------------------
\* BedwarsStatsTracker: recent games
\* ------------------------------------------------------------------------
\* all_games[:50]
RECENT_GAMES_CAP == 50
\* games of a response drawn game by game
MaxListed == 2
\* games of the long response, and the date just before its oldest game
BlockLen == 50
BlockBase == 100
\* dates of the games drawn one by one: older and newer than the long response
OldDate == 1
NewDate == 500
\* process_recent_games calls that are counted
MaxPolls == 2

\* a game object of the recent-games response; a key whose value is "" is absent
RawGame(date, mode, map, gameType) ==
    ("date" :> date) @@ ("gameType" :> gameType)
    @@ RawField("mode", mode, "") @@ RawField("map", map, "")

\* mode_mapping.get(mode, mode)
ReadableMode(mode) ==
    CASE mode = "BEDWARS_EIGHT_ONE" -> "solos"
      [] mode = "BEDWARS_EIGHT_TWO" -> "doubles"
      [] mode = "BEDWARS_FOUR_THREE" -> "threes"
      [] mode = "BEDWARS_FOUR_FOUR" -> "fours"
      [] OTHER -> mode

\* _parse_bedwars_game; game_id = f"{date_timestamp}_{mode}_{map or 'UNKNOWN'}"
\* is kept as the triple it is formatted from
ParseBedwarsGame(game) ==
    [game_id |-> <<game["date"], Get(game, "mode", "UNKNOWN"), Get(game, "map", "UNKNOWN")>>,
     timestamp |-> game["date"],
     mode |-> ReadableMode(Get(game, "mode", "UNKNOWN")),
     map |-> Get(game, "map", "Unknown Map")]

\* fetch_recent_games on a response listing games
FetchRecentGames(games) ==
    LET bedwars == SelectSeq(games, LAMBDA g : g["gameType"] = "BEDWARS")
    IN  [api_enabled |-> Len(games) > 0,
         games |-> [i \in 1..Len(bedwars) |-> ParseBedwarsGame(bedwars[i])]]

\* the merged list left in the order of the concatenation
Unsorted(all_games) == all_games

\* all_games.sort(key=timestamp, reverse=True): descending, and stable (entries
\* with equal timestamps keep their order): the entries of the newest timestamp
\* in their order, then those of the next one, and so on
RECURSIVE NewestFirst(_, _)
NewestFirst(all_games, ages) ==
    IF ages = {}
    THEN <<>>
    ELSE LET least == CHOOSE a \in ages : \A b \in ages : a <= b
         IN  SelectSeq(all_games, LAMBDA g : 0 - g.timestamp = least)
             \o NewestFirst(all_games, ages \ {least})

\* (the sort key negated: the newest entry has the least age)
SortNewestFirst(all_games) ==
    NewestFirst(all_games, {0 - all_games[i].timestamp : i \in 1..Len(all_games)})

\* the games a response may list: up to MaxListed of a few games (two dates, the
\* map given or not, one game of another game type), or one long list
ListedGames ==
    {RawGame(d, "BEDWARS_EIGHT_ONE", map, "BEDWARS") :
        d \in {OldDate, NewDate}, map \in {"Lighthouse", ""}}
    \cup {RawGame(NewDate, "SOLO", "", "SKYWARS")}

LongResponse ==
    [i \in 1..BlockLen |->
        RawGame(BlockBase + BlockLen + 1 - i, "BEDWARS_FOUR_FOUR", "Lighthouse", "BEDWARS")]

Responses == SeqsUpTo(ListedGames, MaxListed) \cup {LongResponse}

\* process_recent_games, the fetch failing: "Could not fetch recent games"
CouldNotFetchRecentGames == UNCHANGED <<recent_games, r_api_enabled, r_dropped, r_polls>>

RecentFetchFailed ==
    /\ UNCHANGED outsideRecent
    /\ CouldNotFetchRecentGames

\* process_recent_games, the API listing games
ProcessRecentGamesOn(games) ==
    LET recent_games_response == FetchRecentGames(games)
        existing_game_ids == {recent_games[i].game_id : i \in 1..Len(recent_games)}
        new_games == SelectSeq(recent_games_response.games,
                               LAMBDA g : g.game_id \notin existing_game_ids)
        all_games == SortNewestFirst(new_games \o recent_games)
    IN  /\ IF new_games # <<>>
           THEN /\ recent_games' =
                      SubSeq(all_games, 1, Min(RECENT_GAMES_CAP, Len(all_games)))
                /\ r_dropped' =
                      SubSeq(all_games, RECENT_GAMES_CAP + 1, Len(all_games))
           ELSE UNCHANGED <<recent_games, r_dropped>>
        /\ r_api_enabled' = recent_games_response.api_enabled

\* process_recent_games on a response
ProcessRecentGames ==
    /\ UNCHANGED outsideRecent
    /\ \E games \in Responses : ProcessRecentGamesOn(games)
    /\ r_polls' = Min(r_polls + 1, MaxPolls)

\* ------------------------------------------------------------------------
\* Specification of the recent-games log of the tracked player, from no file
\* ------------------------------------------------------------------------
InitRecentGames ==
    /\ IdleStore
    /\ IdleTracker
    /\ IdleIngest
    /\ IdleSession
    /\ IdleRecent
    /\ IdleWinstreak
    /\ IdleLeaderboards
    /\ IdleLevels
    /\ IdleRatios
    /\ IdleLoop
    /\ IdleMain
    /\ IdleApi
    /\ IdleInsert
    /\ IdleEnq

NextRecentGames ==
    \/ ProcessRecentGames
    \/ RecentFetchFailed

SpecRecentGames == InitRecentGames /\ [][NextRecentGames]_vars

NoDuplicateIn(log) ==
    \A i, j \in 1..Len(log) : i # j => log[i].game_id # log[j].game_id

\* C6: no two entries of the recent-games log have the same game_id, whether
\* the match came back in a later poll or was listed twice by one response.
C6_NoDuplicateGameId == NoDuplicateIn(recent_games)

\* a match already in the log came back in a later poll
C6_Witness ==
    /\ r_polls >= 2
    /\ recent_games # <<>>
    /\ NoDuplicateIn(recent_games)

\* C7: the log holds at most 50 entries, newest first, and every entry cut off
\* by the truncation is no newer than every entry kept.
C7_NewestFiftyKept ==
    /\ Len(recent_games) <= RECENT_GAMES_CAP
    /\ \A i \in 1..(Len(recent_games) - 1) :
          recent_games[i].timestamp >= recent_games[i + 1].timestamp
    /\ \A i \in 1..Len(r_dropped), j \in 1..Len(recent_games) :
          r_dropped[i].timestamp <= recent_games[j].timestamp

\* a newer game pushed the oldest game of a full log out
C7_Witness ==
    /\ Len(recent_games) = RECENT_GAMES_CAP
    /\ r_dropped # <<>>
    /\ recent_games[1].timestamp = NewDate
    /\ r_dropped[1].timestamp > OldDate

\* ------------------------------------------------------------------------
\* Specification of update_winstreak_estimates applied to the diffs of
\* successive sessions, from an empty winstreak_data
\* ------------------------------------------------------------------------
\* overall wins and losses of one session
MaxDeltaWins == 5
MaxDeltaLosses == 1
\* the winstreak the API reports when it reports one above 0
MaxReported == 3
\* sessions applied
MaxUpdates == 2

Scopes == {"overall"} \cup Modes

\* the modes part of a diff: no mode listed, or one mode with one game
ModeDiffs(wins, losses) ==
    {<<>>}
    \cup {m :> [wins |-> 1, losses |-> 0] : m \in IF wins >= 1 THEN Modes ELSE {}}
    \cup {m :> [wins |-> 0, losses |-> 1] : m \in IF losses >= 1 THEN Modes ELSE {}}

\* winstreaks the API reports: the overall one, and the one of the listed mode
ReportedWinstreaks(modes) ==
    {[scope \in Scopes |->
         IF scope = "overall" THEN o ELSE IF scope \in modes THEN v ELSE NoStreak] :
        o \in {NoStreak, 0, MaxReported}, v \in {NoStreak, MaxReported}}

\* one logged session: process_player_session calls update_winstreak_estimates
\* with the session's diff and the stats just fetched
ApplySession ==
    /\ UNCHANGED outsideWinstreak
    /\ w_n < MaxUpdates
    /\ \E wins \in 0..MaxDeltaWins, losses \in 0..MaxDeltaLosses :
          /\ wins + losses > 0
          /\ \E modes \in ModeDiffs(wins, losses) :
                \E api \in ReportedWinstreaks(DOMAIN modes) :
                   LET diff == [overall |-> [wins |-> wins, losses |-> losses],
                                modes |-> modes]
                       current_stats ==
                          [winstreak |-> api["overall"],
                           modes |-> [m \in Modes |-> [winstreak |-> api[m]]]]
                   IN  /\ w_est' = UpdateWinstreakEstimates(w_est, diff, current_stats)
                       /\ w_prev' = w_est
                       /\ w_diff' = diff
                       /\ w_api' = api
    /\ w_n' = w_n + 1

InitWinstreak ==
    /\ IdleStore
    /\ IdleTracker
    /\ IdleIngest
    /\ IdleSession
    /\ IdleRecent
    /\ IdleWinstreak
    /\ IdleLeaderboards
    /\ IdleLevels
    /\ IdleRatios
    /\ IdleLoop
    /\ IdleMain
    /\ IdleApi
    /\ IdleInsert
    /\ IdleEnq

NextWinstreak ==
    \/ ApplySession

SpecWinstreak == InitWinstreak /\ [][NextWinstreak]_vars

\* C8: for each mode listed in the session's diff, the estimate after the
\* update is the rule applied to the prior estimate of that mode, that mode's
\* own wins and losses of the session, and that mode's API-reported winstreak.
C8_ModeUsesOwnDeltas ==
    w_n > 0 =>
       \A m \in DOMAIN w_diff.modes :
          w_est[m] = EstimateAfter(Get(w_prev, m, ZeroEstimate),
                                   w_diff.modes[m].wins, w_diff.modes[m].losses,
                                   w_api[m])

\* a session listed a mode whose API winstreak was not reported
C8_Witness ==
    /\ w_n > 0
    /\ \E m \in DOMAIN w_diff.modes : w_api[m] = NoStreak /\ m \in DOMAIN w_est

\* C9: overall scope, no API-reported winstreak: a session of w > 0 wins and no
\* loss adds w to min_possible, max_possible and likely; a session with l > 0
\* losses sets min_possible = 0, max_possible = w and likely = w / (l + 1).
\* A session (5, 0) followed by a session (2, 1) ends at min 0, max 2, likely 1.
C9_OverallRule ==
    (w_n > 0 /\ w_api["overall"] = NoStreak) =>
       LET prior == Get(w_prev, "overall", ZeroEstimate)
           est == w_est["overall"]
           w == w_diff.overall.wins
           l == w_diff.overall.losses
       IN  /\ (l = 0 /\ w > 0) =>
                 /\ est.min_possible = prior.min_possible + w
                 /\ est.max_possible = prior.max_possible + w
                 /\ est.likely.n * prior.likely.d =
                       (prior.likely.n + w * prior.likely.d) * est.likely.d
           /\ l > 0 =>
                 /\ est.min_possible = 0
                 /\ est.max_possible = w
                 /\ est.likely.n * (l + 1) = w * est.likely.d
           /\ (/\ w_n = 2
               /\ prior.min_possible = 5 /\ prior.max_possible = 5
               /\ prior.likely = [n |-> 5, d |-> 1]
               /\ w = 2 /\ l = 1) =>
                 /\ est.min_possible = 0
                 /\ est.max_possible = 2
                 /\ est.likely = [n |-> 1, d |-> 1]

\* the session (2, 1) after the session (5, 0), no winstreak reported
C9_Witness ==
    /\ w_n = 2
    /\ w_api["overall"] = NoStreak
    /\ w_prev = ("overall" :> [api_value |-> NoStreak, min_possible |-> 5,
                                max_possible |-> 5, likely |-> [n |-> 5, d |-> 1]])
    /\ w_diff.overall = [wins |-> 2, losses |-> 1]
    /\ w_est["overall"].min_possible = 0
    /\ w_est["overall"].max_possible = 2
    /\ w_est["overall"].likely = [n |-> 1, d |-> 1]

\* C35: after any sequence of logged sessions with non-negative win and loss
\* deltas, with or without an API-reported winstreak, every scope's estimate
\* satisfies 0 <= min_possible <= likely <= max_possible.
C35_EstimatesOrdered ==
    \A scope \in DOMAIN w_est :
       LET est == w_est[scope]
       IN  /\ est.likely.d > 0
           /\ 0 <= est.min_possible
           /\ est.min_possible * est.likely.d <= est.likely.n
           /\ est.likely.n <= est.max_possible * est.likely.d

\* a session with an API-reported winstreak, then one without it that has a
\* loss: likely lies strictly between min_possible and max_possible
C35_Witness ==
    /\ w_n = 2
    /\ w_prev # <<>>
    /\ w_prev["overall"].api_value = MaxReported
    /\ w_api["overall"] = NoStreak
    /\ w_diff.overall.losses > 0
    /\ w_est["overall"].min_possible = 0
    /\ w_est["overall"].likely.n > 0
    /\ w_est["overall"].likely.n < w_est["overall"].max_possible * w_est["overall"].likely.d

\* C10: when the API reports an integer winstreak for a scope that had games in
\* the logged session, that scope's estimate after the update has
\* min_possible = max_possible = likely = the reported value.
C10_ApiValueTrusted ==
    w_n > 0 =>
       \A scope \in {"overall"} \cup DOMAIN w_diff.modes :
          w_api[scope] # NoStreak =>
             /\ w_est[scope].min_possible = w_api[scope]
             /\ w_est[scope].max_possible = w_api[scope]
             /\ w_est[scope].likely.n = w_api[scope] * w_est[scope].likely.d

\* the API reported a winstreak for a scope whose prior estimate was another
C10_Witness ==
    /\ w_n = 2
    /\ \E scope \in {"overall"} \cup DOMAIN w_diff.modes :
          /\ w_api[scope] # NoStreak
          /\ scope \in DOMAIN w_prev
          /\ w_prev[scope].min_possible # w_api[scope]
          /\ w_prev[scope].max_possible # w_api[scope]
          /\ w_est[scope].max_possible = w_api[scope]

\* ------------------------------------------------------------------------
\* MassiveBedwarsTracker.generate_leaderboards
\* ------------------------------------------------------------------------
\* "LIMIT 100"
LEADERBOARD_LIMIT == 100
\* identities whose snapshots are saved one by one
MaxLbIds == 3
\* players of the large store, each with one snapshot; their wins start above
\* BulkBaseWins, and each has BulkLosses losses
BulkPlayers == 100
BulkBaseWins == 20
BulkLosses == 10
\* operations (saves, generations) in one behaviour
MaxLbClock == 4

\* three of the ten metrics: a raw counter, a ratio and a per-mode counter
\* (the other seven run the same query with another ORDER BY column)
Metrics == {"wins", "wlr", "solos_wins"}

\* the generated column
\*   wlr = CASE WHEN losses > 0 THEN CAST(wins AS REAL) / losses ELSE wins END
\* as an exact fraction
Wlr(wins, losses) == IF losses > 0 THEN Frac(wins, losses) ELSE Frac(wins, 1)

\* round(x, 3), in thousandths, for x = f.n / f.d (a tie goes to the even
\* thousandth)
RoundMilli(f) ==
    LET q == (f.n * 1000) \div f.d
        r == (f.n * 1000) % f.d
    IN  IF 2 * r > f.d THEN q + 1
        ELSE IF 2 * r < f.d THEN q
        ELSE IF q % 2 = 0 THEN q ELSE q + 1

\* a bedwars_stats row; the counters that no modelled metric reads are left out
SnapshotRow(uuid, timestamp, stats) ==
    [uuid |-> uuid, timestamp |-> timestamp, wins |-> stats.wins,
     losses |-> stats.losses, solos_wins |-> stats.solos_wins,
     wlr |-> Wlr(stats.wins, stats.losses)]

\* stats of the snapshots saved one by one
StatChoices ==
    {[wins |-> 10, losses |-> 0, solos_wins |-> 10],
     [wins |-> 50, losses |-> 100, solos_wins |-> 5],
     [wins |-> 30, losses |-> 7, solos_wins |-> 0]}

LbUuid(k) == [id |-> k, form |-> "dashed"]

\* the large store: players BulkPlayers of them, saved at time 0
BulkUuid(i) == LbUuid(BulkPlayers + i)

BulkPlayerRows ==
    [u \in {BulkUuid(i) : i \in 1..BulkPlayers} |->
        [username |-> DisplayName(u.id), discovery_method |-> "leaderboard"]]

BulkSnapshots ==
    [i \in 1..BulkPlayers |->
        SnapshotRow(BulkUuid(i), 0,
                    [wins |-> BulkBaseWins + i, losses |-> BulkLosses, solos_wins |-> i])]

\* every joined row, whatever its timestamp
JoinedRows(P, S) ==
    SelectSeq([i \in 1..Len(S) |-> i], LAMBDA i : S[i].uuid \in DOMAIN P)

\* FROM bedwars_stats s JOIN players p ON s.uuid = p.uuid
\* WHERE s.timestamp = (SELECT MAX(timestamp) FROM bedwars_stats s2 WHERE s2.uuid = s.uuid)
\* the rowids selected, in rowid order
LatestRows(P, S) ==
    SelectSeq([i \in 1..Len(S) |-> i],
              LAMBDA i : /\ S[i].uuid \in DOMAIN P
                         /\ \A j \in 1..Len(S) :
                               S[j].uuid = S[i].uuid => S[j].timestamp <= S[i].timestamp)

\* a common multiple of the denominators of the wlr column
RECURSIVE ProductOf(_)
ProductOf(D) ==
    IF D = {}
    THEN 1
    ELSE LET d == CHOOSE x \in D : TRUE IN d * ProductOf(D \ {d})

WlrScale(S) == ProductOf({S[i].wlr.d : i \in 1..Len(S)})

\* the ORDER BY column as an integer: the column times scale (ratios compare
\* exactly, scale being a multiple of every denominator)
SortKey(row, metric, scale) ==
    CASE metric = "wins" -> row.wins
      [] metric = "solos_wins" -> row.solos_wins
      [] OTHER -> (row.wlr.n * scale) \div row.wlr.d

\* the rows of keyed (given in rowid order, their keys between lo and hi) in
\* ascending order of the key, rows of equal key staying in rowid order
RECURSIVE AscendingBetween(_, _, _)
AscendingBetween(keyed, lo, hi) ==
    IF keyed = <<>>
    THEN <<>>
    ELSE IF lo = hi
         THEN [i \in 1..Len(keyed) |-> keyed[i].id]
         ELSE LET mid == (lo + hi) \div 2
              IN  AscendingBetween(SelectSeq(keyed, LAMBDA r : r.neg <= mid), lo, mid)
                  \o AscendingBetween(SelectSeq(keyed, LAMBDA r : r.neg > mid), mid + 1, hi)

\* ORDER BY ... DESC over rows keyed by the negated column: the rows of the
\* greatest value first; rows of equal value stay in rowid order
OrderByDesc(keyed) ==
    LET negs == {keyed[i].neg : i \in 1..Len(keyed)}
    IN  IF negs = {}
        THEN <<>>
        ELSE AscendingBetween(keyed, CHOOSE a \in negs : \A b \in negs : a <= b, 0)

\* one element of leaderboard["players"]; snapshot is the rowid of the row the
\* entry was built from (it is not written to the file, the claims are stated
\* with it); "wlr": round(row[7], 3) if row[7] else 0, in thousandths
LeaderboardEntry(P, S, rank, id) ==
    [rank |-> rank, username |-> P[S[id].uuid].username, wins |-> S[id].wins,
     losses |-> S[id].losses,
     wlr |-> IF S[id].wlr.n # 0 THEN RoundMilli(S[id].wlr) ELSE 0,
     solos_wins |-> S[id].solos_wins, snapshot |-> id]

\* the body of the loop "for lb_key, title, order_by in leaderboards", up to
\* the file being written
GenerateLeaderboard(P, S, metric, now) ==
    LET ids == LatestRows(P, S)
        scale == WlrScale(S)
        keyed == [i \in 1..Len(ids) |->
                     [id |-> ids[i], neg |-> 0 - SortKey(S[ids[i]], metric, scale)]]
        ordered == OrderByDesc(keyed)
        results == SubSeq(ordered, 1, Min(LEADERBOARD_LIMIT, Len(ordered)))
    IN  [generated_at |-> now, total_players |-> Len(results),
         players |-> [rank \in 1..Len(results) |->
                         LeaderboardEntry(P, S, rank, results[rank])]]

\* the new entries written after the ones the file held
MergeArtifact(old, new) ==
    IF old = <<>> THEN <<new>> ELSE <<[new EXCEPT !.players = old[1].players \o @]>>

\* "with open(lb_file, 'w') as f: json.dump(leaderboard, f, indent=2)"
WriteArtifact(old, new) == <<new>>

\* save_player_stats as process_discovery_queue calls it, a request and its
\* delay (REQUEST_DELAY and more) after the save before: CURRENT_TIMESTAMP is
\* later than that of every row in the store
SaveSnapshot ==
    /\ UNCHANGED outsideLeaderboards
    /\ lb_now < MaxLbClock
    /\ \E k \in 1..MaxLbIds, stats \in StatChoices :
          /\ players' = SavePlayerRow(players, LbUuid(k), "leaderboard")
          /\ bedwars_stats' = Append(bedwars_stats, SnapshotRow(LbUuid(k), lb_now + 1, stats))
    /\ lb_now' = lb_now + 1
    /\ lb_fresh' = FALSE
    /\ UNCHANGED leaderboards

\* generate_leaderboards
GenerateLeaderboards ==
    /\ UNCHANGED outsideLeaderboards
    /\ lb_now < MaxLbClock
    /\ leaderboards' =
          [m \in Metrics |->
              WriteArtifact(Get(leaderboards, m, <<>>),
                            GenerateLeaderboard(players, bedwars_stats, m, lb_now + 1))]
    /\ lb_now' = lb_now + 1
    /\ lb_fresh' = TRUE
    /\ UNCHANGED <<players, bedwars_stats>>

\* ------------------------------------------------------------------------
\* Specification of the leaderboard generator over a store that holds no
\* snapshot, or one snapshot for each of BulkPlayers players, and that grows
\* by save_player_stats calls
\* ------------------------------------------------------------------------
InitLeaderboards ==
    /\ \/ players = <<>> /\ bedwars_stats = <<>>
       \/ players = BulkPlayerRows /\ bedwars_stats = BulkSnapshots
    /\ otherPlayers = 0
    /\ player_discovery = <<>>
    /\ tx_marked = {}
    /\ IdleTracker
    /\ IdleIngest
    /\ IdleSession
    /\ IdleRecent
    /\ IdleWinstreak
    /\ IdleLeaderboards
    /\ IdleLevels
    /\ IdleRatios
    /\ IdleLoop
    /\ IdleMain
    /\ IdleApi
    /\ IdleInsert
    /\ IdleEnq

NextLeaderboards ==
    \/ SaveSnapshot
    \/ GenerateLeaderboards

SpecLeaderboards == InitLeaderboards /\ [][NextLeaderboards]_vars

\* the row is the most recent snapshot of its player
IsLatestSnapshot(id) ==
    \A j \in 1..Len(bedwars_stats) :
        bedwars_stats[j].uuid = bedwars_stats[id].uuid
           => bedwars_stats[j].timestamp <= bedwars_stats[id].timestamp

\* row a's metric is at least (Geq) or more than (Gt) row b's
MetricGeq(a, b, metric) ==
    CASE metric = "wins" -> a.wins >= b.wins
      [] metric = "solos_wins" -> a.solos_wins >= b.solos_wins
      [] OTHER -> a.wins * (IF b.losses > 0 THEN b.losses ELSE 1)
                     >= b.wins * (IF a.losses > 0 THEN a.losses ELSE 1)

MetricGt(a, b, metric) == ~MetricGeq(b, a, metric)

\* the metric as the entry shows it
Shown3(e, metric) ==
    CASE metric = "wins" -> e.wins [] metric = "solos_wins" -> e.solos_wins [] OTHER -> e.wlr

\* C16: for every metric the leaderboard just generated has at most 100
\* entries (as many as there are players with a snapshot, up to 100), each
\* built from the most recent snapshot of a different player, ordered by the
\* metric non-increasing, with ranks 1..n in that order, and no player left
\* out has a latest-snapshot metric above that of a listed player.  For three
\* players with wins 10, 50, 30 the wins leaderboard is 50, 30, 10 with ranks
\* 1, 2, 3.
C16_TopHundredOfLatest ==
    lb_fresh =>
      \A metric \in Metrics :
        LET S == bedwars_stats
            list == leaderboards[metric][1].players
            listed == {list[i].snapshot : i \in 1..Len(list)}
            tracked == {S[i].uuid : i \in 1..Len(S)}
        IN  /\ Len(list) <= 100
            /\ Len(list) = Min(100, Cardinality(tracked))
            /\ leaderboards[metric][1].total_players = Len(list)
            /\ \A i \in 1..Len(list) :
                  LET e == list[i]
                      row == S[e.snapshot]
                  IN  /\ e.rank = i
                      /\ IsLatestSnapshot(e.snapshot)
                      /\ e.username = players[row.uuid].username
                      /\ e.wins = row.wins /\ e.losses = row.losses
                      /\ e.solos_wins = row.solos_wins
                      /\ \A j \in 1..Len(list) :
                            j # i => S[list[j].snapshot].uuid # row.uuid
                      /\ i < Len(list) =>
                            /\ MetricGeq(row, S[list[i + 1].snapshot], metric)
                            /\ Shown3(e, metric) >= Shown3(list[i + 1], metric)
            /\ \A r \in 1..Len(S) :
                  (IsLatestSnapshot(r) /\ r \notin listed) =>
                     \A id \in listed : ~MetricGt(S[r], S[id], metric)
            /\ (/\ Len(S) = 3
                /\ Cardinality(tracked) = 3
                /\ <<S[1].wins, S[2].wins, S[3].wins>> = <<10, 50, 30>>
                /\ metric = "wins") =>
                  /\ [i \in 1..Len(list) |-> list[i].wins] = <<50, 30, 10>>
                  /\ [i \in 1..Len(list) |-> list[i].rank] = <<1, 2, 3>>
                  /\ [i \in 1..Len(list) |-> list[i].snapshot] = <<2, 3, 1>>

\* the leaderboards were generated from a store of more than 100 players, one
\* of them with two snapshots, the later one with fewer wins: the wins
\* leaderboard is full and leaves out a player
C16_Witness ==
    /\ lb_fresh
    /\ Cardinality({bedwars_stats[i].uuid : i \in 1..Len(bedwars_stats)}) > 100
    /\ Len(leaderboards["wins"][1].players) = 100
    /\ \E i, j \in 1..Len(bedwars_stats) :
          /\ i < j
          /\ bedwars_stats[i].uuid = bedwars_stats[j].uuid
          /\ bedwars_stats[i].wins > bedwars_stats[j].wins
          /\ \E k \in 1..100 : leaderboards["wins"][1].players[k].snapshot = j

\* the leaderboards were generated from three players with wins 10, 50, 30
C16_Example ==
    /\ lb_fresh
    /\ Len(bedwars_stats) = 3
    /\ [i \in 1..3 |-> bedwars_stats[i].wins] = <<10, 50, 30>>
    /\ Len(leaderboards["wins"][1].players) = 3
    /\ [i \in 1..3 |-> leaderboards["wins"][1].players[i].wins] = <<50, 30, 10>>

\* C17: generate_leaderboards run again with no change to the store in between
\* leaves, for every metric, one artifact with the same ranked entries (same
\* players, order, ranks and stats) as the run before; only generated_at may
\* differ.
C17_RegenerationIdempotent ==
    [][(lb_fresh /\ lb_fresh' /\ lb_now' # lb_now) =>
          \A metric \in Metrics :
             /\ Len(leaderboards'[metric]) = 1
             /\ leaderboards'[metric][1].players = leaderboards[metric][1].players
             /\ leaderboards'[metric][1].total_players
                   = leaderboards[metric][1].total_players]_vars

\* two runs in a row over a store holding snapshots, no save in between: the
\* second run wrote its files with a later generated_at
C17_Witness ==
    /\ lb_fresh
    /\ lb_now >= 2
    /\ \A i \in 1..Len(bedwars_stats) : bedwars_stats[i].timestamp <= lb_now - 2
    /\ Len(bedwars_stats) >= 2
    /\ leaderboards["wlr"][1].generated_at = lb_now
    /\ leaderboards["wlr"][1].players # <<>>

\* the player an entry of a leaderboard stands for
EntryPlayer(e) == bedwars_stats[e.snapshot].uuid

\* C37: in every leaderboard artifact written by generate_leaderboards no two
\* entries stand for the same player, whatever number of snapshots the
\* players of the store have.
C37_PlayerListedOnce ==
    \A metric \in DOMAIN leaderboards :
       \A a \in 1..Len(leaderboards[metric]) :
          LET list == leaderboards[metric][a].players
          IN  \A i, j \in 1..Len(list) :
                 EntryPlayer(list[i]) = EntryPlayer(list[j]) => i = j

\* a player with two snapshots is listed in the wins leaderboard just
\* generated, next to another player
C37_Witness ==
    /\ lb_fresh
    /\ Len(leaderboards["wins"][1].players) >= 2
    /\ \E i \in 1..Len(leaderboards["wins"][1].players) :
          \E r, t \in 1..Len(bedwars_stats) :
             /\ r # t
             /\ bedwars_stats[r].uuid = EntryPlayer(leaderboards["wins"][1].players[i])
             /\ bedwars_stats[t].uuid = bedwars_stats[r].uuid

\* ------------------------------------------------------------------------
\* calculate_bedwars_level (leaderboard_tracker.py and recompute_levels.py)
\* ------------------------------------------------------------------------
XP_FOR_PRESTIGE == 487000
NORMAL_LEVEL_COST == 5000
\* costs = [500, 1000, 2000, 3500]
LEVEL_COSTS == <<500, 1000, 2000, 3500>>
\* prestiges of the experience values drawn
MaxPrestiges == 2

\* "for cost in costs: if remaining_xp >= cost: ... else: break"
RECURSIVE ConsumeCosts(_, _, _)
ConsumeCosts(remaining_xp, costs, levels_in_prestige) ==
    IF costs = <<>> \/ remaining_xp < Head(costs)
    THEN [remaining_xp |-> remaining_xp, levels_in_prestige |-> levels_in_prestige]
    ELSE ConsumeCosts(remaining_xp - Head(costs), Tail(costs), levels_in_prestige + 1)

\* every level at the flat cost
FlatCostLevel(xp) ==
    (xp \div XP_FOR_PRESTIGE) * 100 + (xp % XP_FOR_PRESTIGE) \div NORMAL_LEVEL_COST

\* a prestige counted as the 96 levels of normal cost
PrestigeOf96Levels(xp) ==
    LET prestiges == xp \div XP_FOR_PRESTIGE
        after == ConsumeCosts(xp % XP_FOR_PRESTIGE, LEVEL_COSTS, 0)
    IN  prestiges * 96 + after.levels_in_prestige
           + after.remaining_xp \div NORMAL_LEVEL_COST

\* MassiveBedwarsTracker.calculate_bedwars_level
CalculateBedwarsLevel(xp) ==
    LET prestiges == xp \div XP_FOR_PRESTIGE
        after == ConsumeCosts(xp % XP_FOR_PRESTIGE, LEVEL_COSTS, 0)
    IN  prestiges * 100 + after.levels_in_prestige
           + after.remaining_xp \div NORMAL_LEVEL_COST

\* calculate_bedwars_level of recompute_levels.py
RecomputeBedwarsLevel(xp) ==
    LET prestiges == xp \div XP_FOR_PRESTIGE
        after == ConsumeCosts(xp % XP_FOR_PRESTIGE, LEVEL_COSTS, 0)
    IN  prestiges * 100 + after.levels_in_prestige
           + after.remaining_xp \div NORMAL_LEVEL_COST

\* experience just below, at and just above the level thresholds
LevelMarks == {0, 500, 1500, 3500, 7000, 12000, 17000, 482000}

Experiences ==
    {xp \in {p * XP_FOR_PRESTIGE + mark + d :
                p \in 0..MaxPrestiges, mark \in LevelMarks, d \in {-1, 0, 1}} : xp >= 0}

\* fetch_player_stats computes the level from stats.Bedwars.Experience and
\* save_player_stats stores it with the snapshot
SaveLevel ==
    /\ UNCHANGED outsideLevels
    /\ \E experience \in Experiences :
          /\ lv_xp' = experience
          /\ lv_level' = CalculateBedwarsLevel(experience)
    /\ lv_by' = "tracker"

\* recompute_all_levels: the level is computed again from the experience of the
\* latest snapshot and written to players
RecomputeAllLevels ==
    /\ UNCHANGED outsideLevels
    /\ lv_level # NoLevel
    /\ lv_level' = RecomputeBedwarsLevel(lv_xp)
    /\ lv_by' = "script"
    /\ UNCHANGED lv_xp

InitLevels ==
    /\ IdleStore
    /\ IdleTracker
    /\ IdleIngest
    /\ IdleSession
    /\ IdleRecent
    /\ IdleWinstreak
    /\ IdleLeaderboards
    /\ IdleLevels
    /\ IdleRatios
    /\ IdleLoop
    /\ IdleMain
    /\ IdleApi
    /\ IdleInsert
    /\ IdleEnq

NextLevels ==
    \/ SaveLevel
    \/ RecomputeAllLevels

SpecLevels == InitLevels /\ [][NextLevels]_vars

\* C18: level(xp) = 100 * (xp div 487000) + k + ((r - c) div 5000), where
\* r = xp mod 487000, k is the number of leading costs 500, 1000, 2000, 3500
\* that r covers one after the other and c is their sum; 0 gives 0, 500 gives
\* 1, 6999 gives 3, 7000 gives 4, 12000 gives 5 and 487000 gives 100.
C18_LevelFormula ==
    lv_level # NoLevel =>
       LET r == lv_xp % 487000
           sums == <<500, 1500, 3500, 7000>>
           k == Cardinality({i \in 1..4 : r >= sums[i]})
           c == IF k = 0 THEN 0 ELSE sums[k]
       IN  /\ lv_level = 100 * (lv_xp \div 487000) + k + ((r - c) \div 5000)
           /\ lv_xp = 0 => lv_level = 0
           /\ lv_xp = 500 => lv_level = 1
           /\ lv_xp = 6999 => lv_level = 3
           /\ lv_xp = 7000 => lv_level = 4
           /\ lv_xp = 12000 => lv_level = 5
           /\ lv_xp = 487000 => lv_level = 100

\* the script recomputed the level of a player one prestige and 6999
\* experience in: three levels into the second prestige
C18_Witness ==
    /\ lv_by = "script"
    /\ lv_xp = 487000 + 6999
    /\ lv_level = 103

\* C36: calculate_bedwars_level is non-decreasing in the experience, the levels
\* earned within a prestige never exceed 99 (so the level neither jumps past nor
\* falls back at a prestige boundary), and the copy in recompute_levels.py
\* returns the tracker's level for every experience.
C36_LevelMonotoneAndCopied ==
    /\ [](lv_level # NoLevel =>
             (/\ lv_level - 100 * (lv_xp \div XP_FOR_PRESTIGE) >= 0
              /\ lv_level - 100 * (lv_xp \div XP_FOR_PRESTIGE) <= 99))
    /\ [][(lv_level # NoLevel /\ lv_by' = "tracker") =>
             (/\ lv_xp' >= lv_xp => lv_level' >= lv_level
              /\ lv_xp' <= lv_xp => lv_level' <= lv_level)]_vars
    /\ [][(lv_by = "tracker" /\ lv_by' = "script") => lv_level' = lv_level]_vars

\* the script recomputed the level of a player one experience short of the
\* third prestige: level 199, as the tracker had stored it
C36_Witness ==
    /\ lv_by = "script"
    /\ lv_xp = 2 * XP_FOR_PRESTIGE - 1
    /\ lv_level = 199

\* ------------------------------------------------------------------------
\* Win/loss ratios: calculate_wlr of the session tracker and the generated
\* column wlr of bedwars_stats
\* ------------------------------------------------------------------------

MaxRatioWins == 7
MaxRatioLosses == 7

\* int(x * 1000) / 1000 in place of round(x, 3)
TruncatedWlr(wins, losses) ==
    IF losses > 0 THEN Frac((wins * 1000) \div losses, 1000) ELSE Frac(wins, 1)

\* calculate_wlr: round(wins / losses, 3) if losses > 0 else float(wins)
CalculateWlr(wins, losses) ==
    IF losses > 0 THEN Frac(RoundMilli(Frac(wins, losses)), 1000) ELSE Frac(wins, 1)

\* parse_player_stats and _parse_mode_stats: "WLR" of the fetched counters
ParseStatsWlr ==
    /\ UNCHANGED outsideRatios
    /\ \E wins \in 0..MaxRatioWins, losses \in 0..MaxRatioLosses :
          /\ rt_wins' = wins
          /\ rt_losses' = losses
          /\ rt_ratio' = CalculateWlr(wins, losses)
    /\ rt_by' = "stats"

\* calculate_session_diff: "WLR" of current minus baseline (the counters of a
\* player only grow)
SessionDiffWlr ==
    /\ UNCHANGED outsideRatios
    /\ \E cur_wins \in 0..MaxRatioWins, cur_losses \in 0..MaxRatioLosses :
          \E base_wins \in 0..cur_wins, base_losses \in 0..cur_losses :
             /\ rt_wins' = cur_wins - base_wins
             /\ rt_losses' = cur_losses - base_losses
             /\ rt_ratio' = CalculateWlr(cur_wins - base_wins, cur_losses - base_losses)
    /\ rt_by' = "diff"

\* INSERT INTO bedwars_stats: the store computes the column wlr of the new row
StoreWlrColumn ==
    /\ UNCHANGED outsideRatios
    /\ \E wins \in 0..MaxRatioWins, losses \in 0..MaxRatioLosses :
          /\ rt_wins' = wins
          /\ rt_losses' = losses
          /\ rt_ratio' = Wlr(wins, losses)
    /\ rt_by' = "column"

InitRatios ==
    /\ IdleStore
    /\ IdleTracker
    /\ IdleIngest
    /\ IdleSession
    /\ IdleRecent
    /\ IdleWinstreak
    /\ IdleLeaderboards
    /\ IdleLevels
    /\ IdleRatios
    /\ IdleLoop
    /\ IdleMain
    /\ IdleApi
    /\ IdleInsert
    /\ IdleEnq

NextRatios ==
    \/ ParseStatsWlr
    \/ SessionDiffWlr
    \/ StoreWlrColumn

SpecRatios == InitRatios /\ [][NextRatios]_vars

\* rt_ratio is exactly wins / losses
ExactQuotient == rt_ratio.n * rt_losses = rt_wins * rt_ratio.d

\* rt_ratio is a whole number of thousandths, and no other thousandth is
\* nearer to wins / losses
NearestMilli ==
    /\ 1000 % rt_ratio.d = 0
    /\ LET k == rt_ratio.n * (1000 \div rt_ratio.d)
           off == 1000 * rt_wins - k * rt_losses
       IN  2 * (IF off < 0 THEN 0 - off ELSE off) <= rt_losses

\* C19: for wins W >= 0 and losses L >= 0, calculate_wlr(W, L), the ratio of
\* a session diff and the generated ratio column all equal W / L when L > 0
\* and W when L = 0 (so the ratio of 0 and 0 is 0)
C19_RatioConvention ==
    rt_by \in {"stats", "diff", "column"} =>
       /\ rt_losses > 0 => ExactQuotient
       /\ rt_losses = 0 => rt_ratio = [n |-> rt_wins, d |-> 1]

\* C19 as amended: the generated column equals W / L when L > 0; calculate_wlr
\* and the ratio of a session diff equal W / L rounded to three decimals (the
\* nearest thousandth, W / L itself when it has no more than three decimals);
\* all three equal W when L = 0, so the ratio of 0 and 0 is 0
C19_RatioRounded ==
    rt_by \in {"stats", "diff", "column"} =>
       /\ (rt_losses > 0 /\ rt_by = "column") => ExactQuotient
       /\ (rt_losses > 0 /\ rt_by # "column") =>
             /\ NearestMilli
             /\ (1000 * rt_wins) % rt_losses = 0 => ExactQuotient
       /\ rt_losses = 0 => rt_ratio = [n |-> rt_wins, d |-> 1]

\* a session diff of 2 wins and 3 losses carries the ratio 0.667
C19_Witness ==
    /\ rt_by = "diff"
    /\ rt_wins = 2
    /\ rt_losses = 3
    /\ rt_ratio = [n |-> 667, d |-> 1000]

\* ------------------------------------------------------------------------
\* BedwarsStatsTracker.run: the check cycles of the tracking loop, for the
\* tracked player
\* ------------------------------------------------------------------------
\* minutes between two looks at the clock
LoopTickMinutes == 15
\* skipped iterations that are counted
MaxSkips == 2

\* the stats the API reports to the loop: overall counters only, no winstreak
LoopRawResponses ==
    {RawBedwars(w, l, NoStreak, 0, 0, NoStreak) : w \in 0..MaxWins, l \in 0..MaxLosses}

\* the recent games the API lists to the loop: none, or one of two games
LoopResponses ==
    SeqsUpTo({RawGame(d, "BEDWARS_EIGHT_ONE", "Lighthouse", "BEDWARS") :
                 d \in {OldDate, NewDate}}, 1)

\* one iteration of the for loop past the cooldown test: process_player_session,
\* then process_recent_games, each making its request
TrackIteration ==
    /\ ~InCooldown
    /\ \/ \E raw \in LoopRawResponses : ProcessPlayerSessionOn(raw, TrackedName)
       \/ CouldNotFetchStats
    /\ \/ /\ \E games \in LoopResponses : ProcessRecentGamesOn(games)
          /\ r_polls' = Min(r_polls + 1, MaxPolls)
       \/ CouldNotFetchRecentGames
    /\ loop_last' = [loop_last EXCEPT !.reqs = {"stats", "recent"}]
    /\ UNCHANGED s_now

TrackPlayer ==
    /\ UNCHANGED outsideLoop
    /\ TrackIteration

\* one iteration stopped by the cooldown test: "continue"
SkipIteration ==
    /\ InCooldown
    /\ s_last' = [s_last EXCEPT !.op = "skipped", !.repeat = FALSE]
    /\ loop_last' = [reqs |-> {}, skips |-> Min(loop_last.skips + 1, MaxSkips)]
    /\ UNCHANGED <<name_changes_file, baseline, session_log, cooldown_file, s_cooldowns,
                   s_name_changes, s_now, recentVars>>

SkipPlayer ==
    /\ UNCHANGED outsideLoop
    /\ SkipIteration

\* time passes between two iterations
BetweenIterations ==
    /\ s_now < MaxClock
    /\ s_now' = s_now + LoopTickMinutes
    /\ UNCHANGED <<name_changes_file, baseline, session_log, cooldown_file, s_cooldowns,
                   s_name_changes, s_last, recentVars, loop_last>>

LoopTick ==
    /\ UNCHANGED outsideLoop
    /\ BetweenIterations

InitTrackingLoop ==
    /\ IdleStore
    /\ IdleTracker
    /\ IdleIngest
    /\ IdleSession
    /\ IdleRecent
    /\ IdleWinstreak
    /\ IdleLeaderboards
    /\ IdleLevels
    /\ IdleRatios
    /\ IdleLoop
    /\ IdleMain
    /\ IdleApi
    /\ IdleInsert
    /\ IdleEnq

NextTrackingLoop ==
    \/ TrackPlayer
    \/ SkipPlayer
    \/ LoopTick

SpecTrackingLoop == InitTrackingLoop /\ [][NextTrackingLoop]_vars

\* the player has a cooldown entry whose last_check is less than
\* PLAYER_COOLDOWN_MINUTES old
CooldownActive ==
    /\ TrackedName \in DOMAIN s_cooldowns
    /\ s_now - s_cooldowns[TrackedName].last_check < PLAYER_COOLDOWN_MINUTES

\* C20: an iteration of the tracking loop for a player whose cooldown entry is
\* less than PLAYER_COOLDOWN_MINUTES old makes no stats request and no
\* recent-games request and leaves the player's baseline, session log and
\* recent-games log as they are; an iteration for a player without such an
\* entry (none, or one whose window has elapsed) makes both requests.
C20_CooldownGate ==
    [][s_now' = s_now =>
          IF CooldownActive
          THEN /\ loop_last'.reqs = {}
               /\ UNCHANGED <<baseline, session_log, recent_games, r_api_enabled>>
          ELSE loop_last'.reqs = {"stats", "recent"}]_vars

\* the player was skipped while in cooldown and, the window elapsed, has been
\* processed again: a further session was logged although the entry is still there
C20_Witness ==
    /\ loop_last.skips >= 1
    /\ loop_last.reqs = {"stats", "recent"}
    /\ TrackedName \in DOMAIN s_cooldowns
    /\ s_now >= s_cooldowns[TrackedName].last_check + PLAYER_COOLDOWN_MINUTES
    /\ s_last.op = "logged"
    /\ recent_games # <<>>

\* ------------------------------------------------------------------------
\* main() of bedwars_stats.py: tracker.run(player_names_manual_list=PLAYERS),
\* then tracker.run(), and the operator's interrupt
\* ------------------------------------------------------------------------
\* where main is once the run() call it is in has returned: after the run over
\* the manual list comes tracker.run() over SELECT username FROM players, which
\* returns at once ("No valid players found") when the table is empty
AfterRun(pc, P) ==
    IF pc = "manual" /\ P # <<>> THEN "database" ELSE "exit"

\* an iteration of the loop of the run() call main is in
MainTrack ==
    /\ UNCHANGED outsideMain
    /\ main.pc \in {"manual", "database"}
    /\ TrackIteration
    /\ main' = [main EXCEPT !.polled = TRUE]

MainSkip ==
    /\ UNCHANGED outsideMain
    /\ main.pc \in {"manual", "database"}
    /\ SkipIteration
    /\ UNCHANGED main

MainTick ==
    /\ UNCHANGED outsideMain
    /\ main.pc \in {"manual", "database"}
    /\ BetweenIterations
    /\ UNCHANGED main

\* KeyboardInterrupt in the loop: "Tracking stopped by user.", then finally:
\* _save_persistent_data(); run() returns to main
Interrupt ==
    /\ UNCHANGED outsideMain
    /\ main.pc \in {"manual", "database"}
    /\ cooldown_file' = s_cooldowns
    /\ name_changes_file' = s_name_changes
    /\ main' = [pc |-> AfterRun(main.pc, players),
                interrupts |-> main.interrupts + 1,
                polled |-> FALSE]
    /\ UNCHANGED <<baseline, session_log, s_cooldowns, s_name_changes, s_now, s_last,
                   recentVars, loop_last>>

InitMain ==
    /\ InitIngestorStore
    /\ IdleTracker
    /\ IdleIngest
    /\ IdleSession
    /\ IdleRecent
    /\ IdleWinstreak
    /\ IdleLeaderboards
    /\ IdleLevels
    /\ IdleRatios
    /\ IdleLoop
    /\ IdleMain
    /\ IdleApi
    /\ IdleInsert
    /\ IdleEnq

NextMain ==
    \/ MainTrack
    \/ MainSkip
    \/ MainTick
    \/ Interrupt

SpecMain == InitMain /\ [][NextMain]_vars

\* C24: an interrupt during the loop writes the in-memory cooldown table and
\* name-change log to their files, and the process then exits: once the
\* operator has interrupted, no run() call is in progress and no player is
\* polled any more.
C24_InterruptFlushesAndExits ==
    /\ [][main'.interrupts > main.interrupts =>
             /\ cooldown_file' = s_cooldowns
             /\ name_changes_file' = s_name_changes]_vars
    /\ [](main.interrupts >= 1 => main.pc = "exit")

\* after the one interrupt the second run() call of main has polled the player
C24_Witness ==
    /\ main.interrupts = 1
    /\ main.pc = "database"
    /\ main.polled
    /\ loop_last.reqs = {"stats", "recent"}

\* ------------------------------------------------------------------------
\* The discovery tracker ended inside an iteration of process_discovery_queue
\* and started again
\* ------------------------------------------------------------------------
\* stat requests of one entry that end in an exception
MaxFetches == 2

\* fetch_player_stats raises (int() of a malformed RateLimit-Remaining header,
\* lastLogin not a number, ...): the request was sent; the exception leaves
\* process_discovery_queue and run_discovery_cycle, run_automatic re-raises it
\* and the process ends.  The iteration's conn.commit() was not reached, and the
\* store rolls the open transaction back when the connection goes away.  (An
\* operator's interrupt during the fetch ends the same way for the store: the
\* handler of run_automatic writes the leaderboard files and commits nothing.)
FetchRaises ==
    /\ UNCHANGED outsideDiscovery
    /\ t_pc = "fetch"
    /\ stat_fetches[t_batch[t_idx]] < MaxFetches
    /\ stat_fetches' = [stat_fetches EXCEPT ![t_batch[t_idx]] = @ + 1]
    /\ tx_marked' = {}
    /\ t_pc' = "dead"
    /\ UNCHANGED <<players, otherPlayers, bedwars_stats, player_discovery, t_mode,
                   rate_limit_remaining, since_lb_fetch, t_batch, t_idx, t_calls>>

\* python leaderboard_tracker.py --auto once more: MassiveBedwarsTracker()
TrackerRestart ==
    /\ UNCHANGED outsideSeeding
    /\ t_pc = "dead"
    /\ t_pc' = "boot"
    /\ rate_limit_remaining' = INITIAL_RATE_LIMIT
    /\ since_lb_fetch' = HourTicks
    /\ seed_requests' = [k \in 0..(HourTicks - 1) |-> 0]
    /\ t_batch' = <<>>
    /\ t_idx' = 1
    /\ UNCHANGED <<storeVars, t_mode, t_calls, stat_fetches>>

NextRaising ==
    \/ InitialSeed
    \/ CycleSeed
    \/ SelectBatch
    \/ BatchDone
    \/ RateLimitBreak
    \/ MarkProcessed
    \/ FetchNoStats
    \/ FetchStats
    \/ Tick
    \/ FetchRaises
    \/ TrackerRestart

SpecRaising == InitAutomatic /\ [][NextRaising]_vars

\* C25: the processed mark of an entry is in the store before the entry's stat
\* fetch begins: when the fetch raises (or the process is interrupted) before
\* the iteration ends, the entry is processed in the store afterwards, and no
\* later run selects it and fetches it again.
C25_MarkSurvivesFailure ==
    /\ [][(t_pc = "fetch" /\ t_pc' = "dead") =>
             player_discovery'[t_batch[t_idx]].processed]_vars
    /\ [](\A i \in 1..MaxQueue : stat_fetches[i] <= 1)

\* the run started after the failure is about to fetch the same entry again
C25_Witness ==
    /\ t_pc = "fetch"
    /\ stat_fetches[t_batch[t_idx]] = 1
    /\ ~player_discovery[t_batch[t_idx]].processed
    /\ t_batch[t_idx] \in tx_marked

\* ------------------------------------------------------------------------
\* make_api_request (bedwars_stats.py and leaderboard_tracker.py)
\* ------------------------------------------------------------------------
\* "reset_time = self.rate_limit_reset or 60", "headers.get("RateLimit-Reset", 60)"
DEFAULT_RESET == 60
\* "time.sleep(reset_time + 5)" of BedwarsStatsTracker
SESSION_EXTRA_WAIT == 5
\* "time.sleep(reset_time + 10)" of MassiveBedwarsTracker
DISCOVERY_EXTRA_WAIT == 10
\* "return self.make_api_request(url, description)": the retry is a nested call,
\* and the interpreter raises RecursionError when its frame limit (1000 unless
\* sys.setrecursionlimit is called, which the program never does) is reached.
\* The frames of the callers and of requests.get count too, so the nested
\* calls that fit are somewhat fewer than this.
RECURSION_LIMIT == 1000

\* a RateLimit-Reset header of a response in the model
ResetSeconds == 30
ResetHeaders == {NoHeader, 0, ResetSeconds}
\* the RateLimit-Remaining header of a response in the model
RemainingHeaders == {NoHeader, RATE_LIMIT_FLOOR}
\* statuses that are neither 200 nor 429
OtherStatuses == {403, 500}
ApiCallers == {"session", "discovery"}
\* player and recentgames (session tracker); player and guild (discovery tracker)
ApiUrls(who) == IF who = "session" THEN {"player", "recentgames"} ELSE {"player", "guild"}

\* the sleep before the nested call
\*   session:   "reset_time = self.rate_limit_reset or 60; time.sleep(reset_time + 5)"
\*   discovery: "reset_time = int(response.headers.get("RateLimit-Reset", 60));
\*               time.sleep(reset_time + 10)"
WaitOn429(who, field, header) ==
    IF who = "session"
    THEN (IF field = NoHeader \/ field = 0 THEN DEFAULT_RESET ELSE field)
            + SESSION_EXTRA_WAIT
    ELSE (IF header = NoHeader THEN DEFAULT_RESET ELSE header) + DISCOVERY_EXTRA_WAIT

\* the header fields a response leaves in the object
\*   session:   rate_limit_remaining and rate_limit_reset, each when its header is there
\*   discovery: rate_limit_remaining when its header is there (the variable of the tracker)
HeadersRead(h, r) ==
    /\ IF api_call.who = "session"
       THEN UNCHANGED rate_limit_remaining
       ELSE rate_limit_remaining' = AfterHeader(rate_limit_remaining, h)
    /\ UNCHANGED outsideRequests

FieldsAfter(h, r) ==
    IF api_call.who = "session"
    THEN [api_call EXCEPT !.remaining = AfterHeader(@, h), !.reset = AfterHeader(@, r)]
    ELSE api_call

\* a caller (fetch_player_stats, fetch_recent_games, get_guild_members) calls
\* make_api_request: the first requests.get is sent.  The calls of one process
\* follow one another; after a call that ended in an uncaught exception the
\* process is a new one of the same program.
CallApi ==
    /\ api_call.pc \in {"idle", "returned", "raised"}
    /\ \E who \in (IF api_call.pc = "idle" THEN ApiCallers ELSE {api_call.who}) :
       \E url \in ApiUrls(who) :
          api_call' = [(IF api_call.pc = "raised" THEN NoCall ELSE api_call) EXCEPT
                          !.pc = "send", !.who = who, !.url = url, !.frames = 1,
                          !.sent = 1, !.last = 0, !.slept = 0, !.result = ""]
    /\ rate_limit_remaining' =
          IF api_call.pc = "raised" THEN INITIAL_RATE_LIMIT ELSE rate_limit_remaining
    /\ UNCHANGED outsideRequests

\* the response is a 429: the headers are read, the call sleeps and calls itself
\* with the same url; the nested call sends the request again, or the
\* interpreter refuses the frame and RecursionError leaves every frame of the
\* call (none of them catches it: "except requests.RequestException")
Answer429 ==
    /\ api_call.pc = "send"
    /\ \E h \in RemainingHeaders, r \in ResetHeaders :
          /\ HeadersRead(h, r)
          /\ LET a == FieldsAfter(h, r)
                 wait == WaitOn429(api_call.who, a.reset, r)
             IN  IF api_call.frames < RECURSION_LIMIT
                 THEN api_call' = [a EXCEPT !.last = 429, !.slept = wait,
                                       !.frames = @ + 1, !.sent = @ + 1]
                 ELSE api_call' = [a EXCEPT !.last = 429, !.slept = wait, !.pc = "raised"]

\* the response is a 200: the headers are read and response.json() is returned
\* through every frame (the pacing sleep of the discovery tracker changes nothing)
Answer200 ==
    /\ api_call.pc = "send"
    /\ \E h \in RemainingHeaders, r \in ResetHeaders :
          /\ HeadersRead(h, r)
          /\ api_call' = [FieldsAfter(h, r) EXCEPT !.last = 200, !.pc = "returned",
                                              !.result = "json"]

\* "if response.status_code != 200: ... return None"
AnswerOtherStatus ==
    /\ api_call.pc = "send"
    /\ \E status \in OtherStatuses : \E h \in RemainingHeaders, r \in ResetHeaders :
          /\ HeadersRead(h, r)
          /\ api_call' = [FieldsAfter(h, r) EXCEPT !.last = status, !.pc = "returned",
                                              !.result = "None"]

\* "except requests.RequestException as e: ... return None"
RequestFails ==
    /\ api_call.pc = "send"
    /\ api_call' = [api_call EXCEPT !.last = -1, !.pc = "returned", !.result = "None"]
    /\ UNCHANGED <<outsideRequests, rate_limit_remaining>>

InitRequests ==
    /\ IdleStore
    /\ IdleTracker
    /\ IdleIngest
    /\ IdleSession
    /\ IdleRecent
    /\ IdleWinstreak
    /\ IdleLeaderboards
    /\ IdleLevels
    /\ IdleRatios
    /\ IdleLoop
    /\ IdleMain
    /\ IdleApi
    /\ IdleInsert
    /\ IdleEnq

NextRequests ==
    \/ CallApi
    \/ Answer429
    \/ Answer200
    \/ AnswerOtherStatus
    \/ RequestFails

SpecRequests == InitRequests /\ [][NextRequests]_vars

\* C28: on a 429 response make_api_request (of either tracker) waits and sends
\* the same url again, and it comes back to its caller only by returning the
\* outcome of the first response that is not a 429 (the body of a 200, None for
\* another status) or of a request exception (None); a 429 never ends the call.
C28_RetriesUntilNot429 ==
    /\ [][(api_call.pc = "send" /\ api_call' # api_call /\ api_call'.last = 429) =>
             /\ api_call'.pc = "send"
             /\ api_call'.url = api_call.url
             /\ api_call'.who = api_call.who
             /\ api_call'.sent = api_call.sent + 1
             /\ api_call'.slept > 0]_vars
    /\ [](api_call.pc \in {"returned", "raised"} =>
             /\ api_call.pc = "returned"
             /\ api_call.last # 429
             /\ (api_call.result = "json") = (api_call.last = 200))

\* the API answered 429 until the nested calls reached the interpreter's frame
\* limit: the call has ended in RecursionError, with nothing returned
C28_Witness ==
    /\ api_call.pc = "raised"
    /\ api_call.last = 429
    /\ api_call.sent = RECURSION_LIMIT
    /\ api_call.result = ""

\* ------------------------------------------------------------------------
\* Either tracker on its own: the session tracker (files) or the discovery
\* tracker (store) runs; the one that has taken a step is the one that goes on
\* ------------------------------------------------------------------------
SessionTrackerRuns ==
    /\ IdleStore
    /\ IdleTracker
    /\ NextSessions

DiscoveryTrackerRuns ==
    /\ IdleSession
    /\ NextDiscovery

NextEitherTracker ==
    \/ SessionTrackerRuns
    \/ DiscoveryTrackerRuns

SpecEitherTracker == InitDiscovery /\ [][NextEitherTracker]_vars

Pending(who) == IF enq[who].pc = "insert" THEN 1 ELSE 0

\* add_player_to_discovery up to its INSERT: both SELECTs found nothing
TrackerChecks ==
    /\ enq["tracker"].pc = "idle"
    /\ Len(player_discovery) + Pending("ingestor") < MaxQueue
    /\ \E raw \in UuidText :
          /\ AddPlayerToDiscovery(players, player_discovery, raw, "guild")
                # player_discovery
          /\ enq' = [enq EXCEPT !["tracker"] = [pc |-> "insert", uuid |-> FormatUuid(raw)]]
    /\ UNCHANGED <<storeVars, outsideRace>>

\* its INSERT and conn.commit()
TrackerInserts ==
    /\ enq["tracker"].pc = "insert"
    /\ player_discovery' =
          Append(player_discovery,
                 [uuid |-> enq["tracker"].uuid, method |-> "guild", processed |-> FALSE])
    /\ enq' = [enq EXCEPT !["tracker"] = NoEnqueue]
    /\ UNCHANGED <<players, otherPlayers, bedwars_stats, tx_marked, outsideRace>>

\* process_discovery_queue between two enqueue calls: the oldest unprocessed
\* row is marked, its fetch brings no stats, the mark is committed
TrackerConsumes ==
    /\ enq["tracker"].pc = "idle"
    /\ SelectUnprocessed(player_discovery, 1) # <<>>
    /\ player_discovery' =
          [player_discovery EXCEPT ![SelectUnprocessed(player_discovery, 1)[1]].processed
                                      = TRUE]
    /\ UNCHANGED <<players, otherPlayers, bedwars_stats, tx_marked, enq, outsideRace>>

\* add_uuid_to_discovery_queue up to its loop: _is_uuid_in_db and
\* _is_uuid_in_discovery_queue found nothing
IngestorChecks ==
    /\ enq["ingestor"].pc = "idle"
    /\ Len(player_discovery) + Pending("tracker") < MaxQueue
    /\ \E k \in Identities :
          LET uuid == [id |-> k, form |-> "dashed"]
          IN  /\ AddUuidToDiscoveryQueue(players, player_discovery, uuid,
                                         "mineflayer_scrape", FALSE) # player_discovery
              /\ enq' = [enq EXCEPT !["ingestor"] = [pc |-> "insert", uuid |-> uuid]]
    /\ UNCHANGED <<storeVars, outsideRace>>

\* an attempt of its loop goes through: INSERT and conn.commit()
IngestorInserts ==
    /\ enq["ingestor"].pc = "insert"
    /\ player_discovery' =
          Append(player_discovery,
                 [uuid |-> enq["ingestor"].uuid, method |-> "mineflayer_scrape",
                  processed |-> FALSE])
    /\ enq' = [enq EXCEPT !["ingestor"] = NoEnqueue]
    /\ UNCHANGED <<players, otherPlayers, bedwars_stats, tx_marked, outsideRace>>

\* no attempt goes through: the call returns False
IngestorGivesUp ==
    /\ enq["ingestor"].pc = "insert"
    /\ enq' = [enq EXCEPT !["ingestor"] = NoEnqueue]
    /\ UNCHANGED <<storeVars, outsideRace>>

InitEnqueueRace ==
    /\ InitIngestorStore
    /\ IdleTracker
    /\ IdleIngest
    /\ IdleSession
    /\ IdleRecent
    /\ IdleWinstreak
    /\ IdleLeaderboards
    /\ IdleLevels
    /\ IdleRatios
    /\ IdleLoop
    /\ IdleMain
    /\ IdleApi
    /\ IdleInsert
    /\ IdleEnq

NextEnqueueRace ==
    \/ TrackerChecks
    \/ TrackerInserts
    \/ TrackerConsumes
    \/ IngestorChecks
    \/ IngestorInserts
    \/ IngestorGivesUp

SpecEnqueueRace == InitEnqueueRace /\ [][NextEnqueueRace]_vars

\* the unprocessed rows of the queue that hold identity k
UnprocessedOf(k) ==
    {i \in 1..Len(player_discovery) :
        ~player_discovery[i].processed /\ player_discovery[i].uuid.id = k}

\* C33: with the tracker (add_player_to_discovery) and the ingestor
\* (add_uuid_to_discovery_queue) enqueueing on the same store at the same time,
\* whatever the order of their check and insert steps, the queue never holds
\* two unprocessed entries of one identity.
C33_OneUnprocessedEntry ==
    \A k \in Identities : Cardinality(UnprocessedOf(k)) <= 1

\* both processes checked before either inserted: the queue holds the same
\* identity twice, unprocessed, once from each of them
C33_Witness ==
    /\ enq["tracker"].pc = "idle"
    /\ enq["ingestor"].pc = "idle"
    /\ \E i, j \in 1..Len(player_discovery) :
          /\ i # j
          /\ player_discovery[i].uuid = player_discovery[j].uuid
          /\ ~player_discovery[i].processed
          /\ ~player_discovery[j].processed
          /\ player_discovery[i].method = "guild"
          /\ player_discovery[j].method = "mineflayer_scrape"

\* ------------------------------------------------------------------------
\* The session tracker and the ingestor side by side on name_changes.json:
\* each loaded the (empty) file when it started and writes its whole
\* self.name_changes at every event it records; the session tracker writes it
\* once more when it is interrupted
\* ------------------------------------------------------------------------
\* events the ingestor logs in the run
MaxLogged == 2

\* the names of the cached players the ingestor finds renamed
IngestorOldNames == {DisplayName(2), DisplayName(3)}
IngestorNewNames == {RenamedTo, "y"}

\* the tracked player has not played: every fetch returns the same counters
QuietResponse == RawBedwars(0, 0, NoStreak, 0, 0, NoStreak)

\* the events of a name_changes dict, as (old name, new name) pairs
EventsOf(nc) ==
    UNION {{<<old, nc[old][i]>> : i \in 1..Len(nc[old])} : old \in DOMAIN nc}

RECURSIVE CountEvents(_, _)
CountEvents(nc, olds) ==
    IF olds = {}
    THEN 0
    ELSE LET old == CHOOSE x \in olds : TRUE
         IN  Len(nc[old]) + CountEvents(nc, olds \ {old})

\* an iteration of run() for the tracked player, whose displayname the API
\* reports as it was or changed
TrackerPolls ==
    /\ UNCHANGED outsideSession
    /\ main.pc \in {"manual", "database"}
    /\ ~InCooldown
    /\ \E current_name \in ReportedNames :
          ProcessPlayerSessionOn(QuietResponse, current_name)
    /\ UNCHANGED s_now

\* get_player_uuid_and_name finds a cached player under a new name and calls
\* _log_name_change(old_name, new_name)
IngestorLogs ==
    /\ UNCHANGED outsideNameLog
    /\ CountEvents(i_name_changes, DOMAIN i_name_changes) < MaxLogged
    /\ \E old_name \in IngestorOldNames, new_name \in IngestorNewNames :
          /\ i_name_changes' = LogNameChange(i_name_changes, old_name, new_name)
          /\ name_changes_file' = i_name_changes'

InitNameLog ==
    /\ IdleStore
    /\ IdleTracker
    /\ IdleIngest
    /\ IdleSession
    /\ IdleRecent
    /\ IdleWinstreak
    /\ IdleLeaderboards
    /\ IdleLevels
    /\ IdleRatios
    /\ IdleLoop
    /\ IdleMain
    /\ IdleApi
    /\ IdleInsert
    /\ IdleEnq

NextNameLog ==
    \/ TrackerPolls
    \/ Interrupt
    \/ IngestorLogs

SpecNameLog == InitNameLog /\ [][NextNameLog]_vars

\* C38: with the session tracker and the ingestor running side by side, every
\* name change either of them has recorded is in name_changes.json, also
\* after the session tracker's flush on exit.
C38_NoRecordedChangeLost ==
    EventsOf(s_name_changes) \cup EventsOf(i_name_changes) \subseteq EventsOf(name_changes_file)

\* both processes have recorded a name change and the session tracker has
\* been interrupted and has left
C38_Witness ==
    /\ s_name_changes # <<>>
    /\ i_name_changes # <<>>
    /\ main.pc = "exit"

====
